---- MODULE Spec2Model ----
(***************************************************************************)
(* Model of the resolution scaler and of the streaming action loop of the  *)
(* e2b-sandbox-mcp server (src/src/streaming/index.ts).                    *)
(*                                                                         *)
(* Numbers.  The scale factor is an IEEE double in the source.  It is kept *)
(* here as the exact fraction <<num, den>> it was computed from.  A double *)
(* product or quotient differs from the exact one by a relative error of   *)
(* about 2^-53, which can change Math.round only when the exact value is   *)
(* a half-integer: there the double may fall on either side of the tie.    *)
(* When the factor is a dyadic fraction the arithmetic is exact and        *)
(* Math.round rounds the tie up; otherwise the outcome at a tie is a       *)
(* choice between the two neighbours (parameter "up").                     *)
(***************************************************************************)
EXTENDS Integers, Sequences, FiniteSets, TLC

VARIABLES
    originalResolution,   \* ResolutionScaler.originalResolution  <<W, H>>
    scaledResolution,     \* ResolutionScaler.scaledResolution    <<w, h>>
    scaleFactor,          \* ResolutionScaler.scaleFactor         <<num, den>>
    spc,                  \* position inside the ResolutionScaler constructor
    tested,               \* results returned by testCoordinateRoundTrip during validation
    lastOp,               \* last public scaler call: [op, arg, res]
    pc,                   \* position of OpenAIComputerStreamer.stream
    signal,               \* props.signal.aborted
    response,             \* the planning response held in "response"
    planLog,              \* one entry per openai.responses.create call
    events,               \* events yielded by stream(), in order
    desktopCalls,         \* calls received by the Sandbox (desktop), in order
    consumer,             \* who iterates stream(): "sse" or "nl"
    consumed,             \* number of yielded events the consumer has taken
    result,               \* result returned by executeNaturalLanguageAction
    e2bApiKey,            \* whether process.env.E2B_API_KEY is set once createSandbox has read the key
    activeSandboxes,      \* SandboxManager.activeSandboxes: sandbox id -> instance
    createLog,            \* calls received by Sandbox.create, in order
    toolCalls,            \* create_sandbox tool calls: arguments and returned result
    loops,                \* sandbox id -> natural-language loops on it: running, finished,
                          \* and the resolution given to the scaler of the latest one
    directLog,            \* ComputerUseTools.executeAction calls: arguments and returned result
    cleanups,             \* SandboxManager.cleanupSandbox calls, in order of call
    kills,                \* sandbox id -> number of kill() invocations on it
    aged                  \* ids of the registered sandboxes created more than 10 minutes ago

vars == <<originalResolution, scaledResolution, scaleFactor, spc, tested, lastOp,
          pc, signal, response, planLog, events, desktopCalls,
          consumer, consumed, result,
          e2bApiKey, activeSandboxes, createLog, toolCalls,
          loops, directLog,
          cleanups, kills, aged>>

scalerVars == <<originalResolution, scaledResolution, scaleFactor, spc, tested, lastOp>>
loopVars == <<pc, signal, response, planLog, events, desktopCalls,
              consumer, consumed, result>>
consumerVars == <<consumer, consumed, result>>
managerVars == <<e2bApiKey, activeSandboxes, createLog, toolCalls>>
toolVars == <<loops, directLog>>
cleanupVars == <<cleanups, kills, aged>>

----------------------------------------------------------------------------
(* Configuration constants of the scaler *)

MAX_RESOLUTION_WIDTH == 1920
MAX_RESOLUTION_HEIGHT == 1080
MIN_RESOLUTION_WIDTH == 800
MIN_RESOLUTION_HEIGHT == 600

----------------------------------------------------------------------------
(* Bounds of the model *)

\* original resolutions are sampled within Delta of each anchor
Delta == 2

WidthAnchors == {640, 800, 1024, 1366, 1920, 2560, 3840, 5760, 7680}
HeightAnchors == {480, 600, 768, 1080, 1440, 2160, 3240, 4320}

Near(anchors) == {a + d : a \in anchors, d \in (0 - Delta)..Delta}

Resolutions == {<<w, h>> : w \in Near(WidthAnchors), h \in Near(HeightAnchors)}

----------------------------------------------------------------------------
(* Arithmetic on fractions n/d with n >= 0, d > 0 *)

Abs(x) == IF x < 0 THEN 0 - x ELSE x

\* n/d is k + 1/2 for an integer k
IsTie(n, d) == (2 * n) % d = 0 /\ ((2 * n) \div d) % 2 = 1

\* the double holding num/den is exact iff the fraction is dyadic
IsExactFactor(f) == \E k \in 0..15 : (f[1] * (2 ^ k)) % f[2] = 0

\* Math.round of the double computed for n/d
MathRound(n, d, exact, up) ==
    IF IsTie(n, d) /\ ~exact /\ ~up
    THEN n \div d
    ELSE (2 * n + d) \div (2 * d)

\* Math.min(widthScaleFactor, heightScaleFactor)
MinFactor(f, g) == IF f[1] * g[2] <= g[1] * f[2] THEN f ELSE g

----------------------------------------------------------------------------
(* ResolutionScaler *)

\* variant: the bounds compared strictly
InBoundsStrict(res) ==
    /\ res[1] < MAX_RESOLUTION_WIDTH
    /\ res[2] < MAX_RESOLUTION_HEIGHT
    /\ res[1] > MIN_RESOLUTION_WIDTH
    /\ res[2] > MIN_RESOLUTION_HEIGHT

\* variant: only the maximum tested
InBoundsMaxOnly(res) ==
    /\ res[1] <= MAX_RESOLUTION_WIDTH
    /\ res[2] <= MAX_RESOLUTION_HEIGHT

InBounds(res) ==
    /\ res[1] <= MAX_RESOLUTION_WIDTH
    /\ res[2] <= MAX_RESOLUTION_HEIGHT
    /\ res[1] >= MIN_RESOLUTION_WIDTH
    /\ res[2] >= MIN_RESOLUTION_HEIGHT

\* variant: each axis scaled by its own factor
calculateScaledResolutionPerAxis(res, up) ==
    IF InBounds(res)
    THEN [scaledResolution |-> res, scaleFactor |-> <<1, 1>>]
    ELSE LET widthScaleFactor == <<MAX_RESOLUTION_WIDTH, res[1]>>
             heightScaleFactor == <<MAX_RESOLUTION_HEIGHT, res[2]>>
             f == MinFactor(widthScaleFactor, heightScaleFactor)
         IN [scaledResolution |->
                 <<MathRound(res[1] * widthScaleFactor[1], widthScaleFactor[2],
                             IsExactFactor(widthScaleFactor), up[1]),
                   MathRound(res[2] * heightScaleFactor[1], heightScaleFactor[2],
                             IsExactFactor(heightScaleFactor), up[2])>>,
             scaleFactor |-> f]

\* variant: the larger of the two factors is used
calculateScaledResolutionMax(res, up) ==
    IF InBounds(res)
    THEN [scaledResolution |-> res, scaleFactor |-> <<1, 1>>]
    ELSE LET widthScaleFactor == <<MAX_RESOLUTION_WIDTH, res[1]>>
             heightScaleFactor == <<MAX_RESOLUTION_HEIGHT, res[2]>>
             f == IF MinFactor(widthScaleFactor, heightScaleFactor) = widthScaleFactor
                  THEN heightScaleFactor ELSE widthScaleFactor
             ex == IsExactFactor(f)
         IN [scaledResolution |-> <<MathRound(res[1] * f[1], f[2], ex, up[1]),
                                    MathRound(res[2] * f[1], f[2], ex, up[2])>>,
             scaleFactor |-> f]

\* calculateScaledResolution: [scaledResolution, scaleFactor]
calculateScaledResolution(res, up) ==
    IF InBounds(res)
    THEN [scaledResolution |-> res, scaleFactor |-> <<1, 1>>]
    ELSE LET widthScaleFactor == <<MAX_RESOLUTION_WIDTH, res[1]>>
             heightScaleFactor == <<MAX_RESOLUTION_HEIGHT, res[2]>>
             f == MinFactor(widthScaleFactor, heightScaleFactor)
             ex == IsExactFactor(f)
         IN [scaledResolution |-> <<MathRound(res[1] * f[1], f[2], ex, up[1]),
                                    MathRound(res[2] * f[1], f[2], ex, up[2])>>,
             scaleFactor |-> f]

\* variant: the axes of the result swapped
scaleToOriginalSpaceSwapped(c, f, up) ==
    <<MathRound(c[2] * f[2], f[1], IsExactFactor(f), up[2]),
      MathRound(c[1] * f[2], f[1], IsExactFactor(f), up[1])>>

\* variant: the coordinate multiplied by the factor
scaleToOriginalSpaceMultiplied(c, f, up) ==
    <<MathRound(c[1] * f[1], f[2], IsExactFactor(f), up[1]),
      MathRound(c[2] * f[1], f[2], IsExactFactor(f), up[2])>>

\* scaleToOriginalSpace: round(coordinate / scaleFactor) per axis
scaleToOriginalSpace(c, f, up) ==
    <<MathRound(c[1] * f[2], f[1], IsExactFactor(f), up[1]),
      MathRound(c[2] * f[2], f[1], IsExactFactor(f), up[2])>>

\* variant: Math.floor in place of Math.round
scaleToModelSpaceFloor(c, f, up) ==
    <<(c[1] * f[1]) \div f[2], (c[2] * f[1]) \div f[2]>>

\* scaleToModelSpace: round(coordinate * scaleFactor) per axis
scaleToModelSpace(c, f, up) ==
    <<MathRound(c[1] * f[1], f[2], IsExactFactor(f), up[1]),
      MathRound(c[2] * f[1], f[2], IsExactFactor(f), up[2])>>

\* testCoordinateRoundTrip
testCoordinateRoundTrip(c, f, upM, upO) ==
    LET modelSpace == scaleToModelSpace(c, f, upM)
        roundTrip == scaleToOriginalSpace(modelSpace, f, upO)
    IN [original |-> c, modelSpace |-> modelSpace, roundTrip |-> roundTrip,
        error |-> <<roundTrip[1] - c[1], roundTrip[2] - c[2]>>]

\* the test points of validateCoordinateScaling, in order
testPoints(res) ==
    << <<0, 0>>,
       <<res[1] - 1, 0>>,
       <<0, res[2] - 1>>,
       <<res[1] - 1, res[2] - 1>>,
       <<res[1] \div 2, res[2] \div 2>> >>

Ties == BOOLEAN \X BOOLEAN

NoOp == [op |-> "none", arg |-> <<0, 0>>, res |-> <<0, 0>>]

NoResponse == [id |-> 0, output |-> <<>>]

\* executeNaturalLanguageAction has not returned
NoResult == [success |-> FALSE, kind |-> "none", message |-> "", detail |-> "",
             finalScreenshot |-> FALSE, reasoning |-> <<>>, actions |-> <<>>]

\* constructor, up to the call of calculateScaledResolution
Construct ==
    /\ spc = "new"
    /\ \E up \in Ties :
         LET r == calculateScaledResolution(originalResolution, up)
         IN /\ scaledResolution' = r.scaledResolution
            /\ scaleFactor' = r.scaleFactor
    /\ spc' = "validate"
    /\ UNCHANGED <<originalResolution, tested, lastOp>>
    /\ UNCHANGED loopVars
    /\ UNCHANGED managerVars
    /\ UNCHANGED toolVars
    /\ UNCHANGED cleanupVars

\* validateCoordinateScaling: one iteration of the loop over the test points
ValidateCoordinateScaling ==
    /\ spc = "validate"
    /\ \E upM \in Ties, upO \in Ties :
         tested' = Append(tested,
                     testCoordinateRoundTrip(testPoints(originalResolution)[Len(tested) + 1],
                                             scaleFactor, upM, upO))
    /\ spc' = IF Len(tested) + 1 = Len(testPoints(originalResolution))
              THEN "ready" ELSE "validate"
    /\ UNCHANGED <<originalResolution, scaledResolution, scaleFactor, lastOp>>
    /\ UNCHANGED loopVars
    /\ UNCHANGED managerVars
    /\ UNCHANGED toolVars
    /\ UNCHANGED cleanupVars

\* coordinates handed to the public conversions once the scaler is built
ProbePoints(res, scaled) ==
    {<<0, 0>>, <<scaled[1] - 1, scaled[2] - 1>>, <<res[1] - 1, res[2] - 1>>,
     <<scaled[1] \div 2, scaled[2] \div 2>>}

ScaleToOriginalSpace ==
    /\ spc = "ready"
    /\ \E c \in ProbePoints(originalResolution, scaledResolution), up \in Ties :
         lastOp' = [op |-> "scaleToOriginalSpace", arg |-> c,
                    res |-> scaleToOriginalSpace(c, scaleFactor, up)]
    /\ UNCHANGED <<originalResolution, scaledResolution, scaleFactor, spc, tested>>
    /\ UNCHANGED loopVars
    /\ UNCHANGED managerVars
    /\ UNCHANGED toolVars
    /\ UNCHANGED cleanupVars

\* variant: the conversion stores its result in the scaler
ScaleToModelSpaceCaching ==
    /\ spc = "ready"
    /\ \E c \in ProbePoints(originalResolution, scaledResolution), up \in Ties :
         /\ lastOp' = [op |-> "scaleToModelSpace", arg |-> c,
                       res |-> scaleToModelSpace(c, scaleFactor, up)]
         /\ scaledResolution' = scaleToModelSpace(c, scaleFactor, up)
    /\ UNCHANGED <<originalResolution, scaleFactor, spc, tested>>
    /\ UNCHANGED loopVars
    /\ UNCHANGED managerVars
    /\ UNCHANGED toolVars
    /\ UNCHANGED cleanupVars

ScaleToModelSpace ==
    /\ spc = "ready"
    /\ \E c \in ProbePoints(originalResolution, scaledResolution), up \in Ties :
         lastOp' = [op |-> "scaleToModelSpace", arg |-> c,
                    res |-> scaleToModelSpace(c, scaleFactor, up)]
    /\ UNCHANGED <<originalResolution, scaledResolution, scaleFactor, spc, tested>>
    /\ UNCHANGED loopVars
    /\ UNCHANGED managerVars
    /\ UNCHANGED toolVars
    /\ UNCHANGED cleanupVars

\* takeScreenshot: desktop.screenshot(), which may reject, resized to the
\* scaled resolution; res is the size of the image returned
TakeScreenshot ==
    /\ spc = "ready"
    /\ \E ok \in BOOLEAN :
         lastOp' = [op |-> "takeScreenshot", arg |-> <<0, 0>>,
                    res |-> IF ok THEN scaledResolution ELSE <<0, 0>>]
    /\ UNCHANGED <<originalResolution, scaledResolution, scaleFactor, spc, tested>>
    /\ UNCHANGED loopVars
    /\ UNCHANGED managerVars
    /\ UNCHANGED toolVars
    /\ UNCHANGED cleanupVars

\* bound on the number of create_sandbox calls
MaxCreates == 2

\* the ids Sandbox.create hands out, in order
SandboxIds == 1..MaxCreates

\* no natural-language loop is running and no direct action was requested
ToolsIdle ==
    /\ loops = [id \in SandboxIds |-> [running |-> 0, finished |-> 0,
                                       original |-> <<0, 0>>]]
    /\ directLog = <<>>

\* no cleanupSandbox call has been made and no sandbox is older than 10 minutes
CleanupIdle ==
    /\ cleanups = <<>>
    /\ kills = [id \in SandboxIds |-> 0]
    /\ aged = {}

\* no SandboxManager call has been made
ManagerIdle ==
    /\ e2bApiKey = TRUE
    /\ activeSandboxes = <<>>
    /\ createLog = <<>>
    /\ toolCalls = <<>>

LoopIdle ==
    /\ pc = "idle"
    /\ signal = FALSE
    /\ response = NoResponse
    /\ planLog = <<>>
    /\ events = <<>>
    /\ desktopCalls = <<>>
    /\ consumer = "sse"
    /\ consumed = 0
    /\ result = NoResult

ScalerInit ==
    /\ originalResolution \in Resolutions
    /\ scaledResolution = <<0, 0>>
    /\ scaleFactor = <<1, 1>>
    /\ spc = "new"
    /\ tested = <<>>
    /\ lastOp = NoOp
    /\ LoopIdle
    /\ ManagerIdle
    /\ ToolsIdle
    /\ CleanupIdle

ScalerNext ==
    \/ Construct
    \/ ValidateCoordinateScaling
    \/ ScaleToOriginalSpace
    \/ ScaleToModelSpace
    \/ TakeScreenshot

ScalerSpec == ScalerInit /\ [][ScalerNext]_vars

----------------------------------------------------------------------------
(* Planning responses and actions handled by OpenAIComputerStreamer *)

\* upper bound on the number of planning requests of one run
MaxRequests == 3

\* original resolutions the streaming loop is run with
LoopResolutions == {<<1920, 1080>>, <<2560, 1440>>}

Undefined == "undefined"
NoPath == <<>>

Action(type, x, y, button, text, keys, sx, sy, path) ==
    [type |-> type, x |-> x, y |-> y, button |-> button, text |-> text,
     keys |-> keys, scroll_x |-> sx, scroll_y |-> sy, path |-> path]

NoAction == Action("none", 0, 0, Undefined, "", "", 0, 0, NoPath)

Click(button) == Action("click", 300, 150, button, "", "", 0, 0, NoPath)
Scroll(sx, sy) == Action("scroll", 300, 150, Undefined, "", "", sx, sy, NoPath)
Drag(path) == Action("drag", 0, 0, Undefined, "", "", 0, 0, path)

ScrollYs == {-5, 0, 7}

Actions ==
    {Click(b) : b \in {"left", "right", "wheel", "middle", Undefined}}
    \cup {Scroll(0, sy) : sy \in ScrollYs}
    \cup {Scroll(3, 0)}
    \cup {Drag(<< <<10, 10>>, <<90, 90>> >>),
          Drag(<< <<10, 10>>, <<50, 50>>, <<90, 90>> >>)}
    \cup {Action("double_click", 300, 150, Undefined, "", "", 0, 0, NoPath),
          Action("move", 301, 151, Undefined, "", "", 0, 0, NoPath),
          Action("type", 0, 0, Undefined, "ls", "", 0, 0, NoPath),
          Action("keypress", 0, 0, Undefined, "", "Enter", 0, 0, NoPath),
          Action("screenshot", 0, 0, Undefined, "", "", 0, 0, NoPath),
          Action("wait", 0, 0, Undefined, "", "", 0, 0, NoPath),
          Action("teleport", 300, 150, Undefined, "", "", 0, 0, NoPath)}

KnownTypes == {"screenshot", "double_click", "click", "type", "keypress", "move",
               "scroll", "wait", "drag"}

CallItem(id, a) == [type |-> "computer_call", call_id |-> id, action |-> a,
                    ctype |-> "", text |-> ""]
MessageItem(ctype, text) == [type |-> "message", call_id |-> 0, action |-> NoAction,
                             ctype |-> ctype, text |-> text]

\* the output arrays a planning response may carry
Outputs ==
    {<<CallItem(1, a)>> : a \in Actions}
    \cup {<<MessageItem("output_text", "Opening the menu"), CallItem(1, a)>> :
             a \in {Click("left"), Scroll(0, 7)}}
    \cup {<<MessageItem("refusal", "no"), CallItem(1, Click("right"))>>}
    \cup {<<MessageItem("output_text", "I need to solve the captcha"),
            CallItem(1, Click("left"))>>}
    \cup {<<CallItem(1, a), CallItem(2, b)>> :
             a \in {Click("left"), Scroll(0, -5)},
             b \in {Action("type", 0, 0, Undefined, "ls", "", 0, 0, NoPath), Scroll(0, 7)}}
    \cup {<<CallItem(1, Action("wait", 0, 0, Undefined, "", "", 0, 0, NoPath)),
            CallItem(2, Click("left")), CallItem(3, Scroll(0, 7))>>}
    \cup {<<MessageItem("output_text", "The task is complete")>>, <<>>}

SelectSeq2(seq, type) == SelectSeq(seq, LAMBDA item : item.type = type)

\* response.output.filter(item => item.type === "computer_call")
ComputerCalls(r) == SelectSeq2(r.output, "computer_call")

\* response.output.filter(item => item.type === "message" && "content" in item)
ReasoningItems(r) == SelectSeq2(r.output, "message")

\* response.output_text: the text of the output_text parts of the messages
OutputText(r) ==
    LET texts == SelectSeq(r.output,
                   LAMBDA item : item.type = "message" /\ item.ctype = "output_text")
    IN IF Len(texts) = 0 THEN "" ELSE texts[1].text

\* variant: the last computer call is taken
ChosenCallLast(computerCalls) == computerCalls[Len(computerCalls)]

\* const computerCall = computerCalls[0]
ChosenCall(computerCalls) == computerCalls[1]

----------------------------------------------------------------------------
(* OpenAIComputerStreamer.executeAction: the calls made on the desktop *)

Call(op, str, nums) == [op |-> op, s |-> str, n |-> nums]

\* variant: the scroll directions exchanged
executeActionScrollSwapped(action, f, up) ==
    IF action.type = "scroll"
    THEN IF action.scroll_y < 0
         THEN <<Call("scroll", "down", <<Abs(action.scroll_y)>>)>>
         ELSE IF action.scroll_y > 0
              THEN <<Call("scroll", "up", <<action.scroll_y>>)>>
              ELSE <<>>
    ELSE <<>>

\* variant: the no-op arms call the desktop
executeActionScreenshotCalls(action, f, up) ==
    LET coordinate == scaleToOriginalSpace(<<action.x, action.y>>, f, up)
    IN CASE action.type = "screenshot" -> <<Call("screenshot", "", <<>>)>>
         [] action.type = "double_click" -> <<Call("doubleClick", "", coordinate)>>
         [] action.type = "click" ->
              IF action.button = "left"
              THEN <<Call("leftClick", "", coordinate)>>
              ELSE IF action.button = "right"
                   THEN <<Call("rightClick", "", coordinate)>>
                   ELSE IF action.button = "wheel"
                        THEN <<Call("middleClick", "", coordinate)>>
                        ELSE <<>>
         [] action.type = "type" -> <<Call("write", action.text, <<>>)>>
         [] action.type = "keypress" -> <<Call("press", action.keys, <<>>)>>
         [] action.type = "move" -> <<Call("moveMouse", "", coordinate)>>
         [] action.type = "scroll" ->
              IF action.scroll_y < 0
              THEN <<Call("scroll", "up", <<Abs(action.scroll_y)>>)>>
              ELSE IF action.scroll_y > 0
                   THEN <<Call("scroll", "down", <<action.scroll_y>>)>>
                   ELSE <<>>
         [] action.type = "wait" -> <<Call("wait", "", <<>>)>>
         [] action.type = "drag" ->
              LET startCoordinate == scaleToOriginalSpace(action.path[1], f, up)
                  endCoordinate == scaleToOriginalSpace(action.path[2], f, up)
              IN <<Call("drag", "", startCoordinate \o endCoordinate)>>
         [] OTHER -> <<>>       \* console.error("Unknown action type:", action)

executeAction(action, f, up) ==
    LET coordinate == scaleToOriginalSpace(<<action.x, action.y>>, f, up)
    IN CASE action.type = "screenshot" -> <<>>
         [] action.type = "double_click" -> <<Call("doubleClick", "", coordinate)>>
         [] action.type = "click" ->
              IF action.button = "left"
              THEN <<Call("leftClick", "", coordinate)>>
              ELSE IF action.button = "right"
                   THEN <<Call("rightClick", "", coordinate)>>
                   ELSE IF action.button = "wheel"
                        THEN <<Call("middleClick", "", coordinate)>>
                        ELSE <<>>
         [] action.type = "type" -> <<Call("write", action.text, <<>>)>>
         [] action.type = "keypress" -> <<Call("press", action.keys, <<>>)>>
         [] action.type = "move" -> <<Call("moveMouse", "", coordinate)>>
         [] action.type = "scroll" ->
              IF action.scroll_y < 0
              THEN <<Call("scroll", "up", <<Abs(action.scroll_y)>>)>>
              ELSE IF action.scroll_y > 0
                   THEN <<Call("scroll", "down", <<action.scroll_y>>)>>
                   ELSE <<>>
         [] action.type = "wait" -> <<>>
         [] action.type = "drag" ->
              LET startCoordinate == scaleToOriginalSpace(action.path[1], f, up)
                  endCoordinate == scaleToOriginalSpace(action.path[2], f, up)
              IN <<Call("drag", "", startCoordinate \o endCoordinate)>>
         [] OTHER -> <<>>       \* console.error("Unknown action type:", action)

----------------------------------------------------------------------------
(* OpenAIComputerStreamer.stream *)

Event(type, content, action) == [type |-> type, content |-> content, action |-> action]

StoppedByUser == "Generation stopped by user"
QuotaMessage == "API quota exceeded. Please try again later."
GenericMessage == "An error occurred with the AI service. Please try again."

\* the entry logged for a call made on the desktop during planning cycle k
Logged(k, call, ok) == [cycle |-> k, op |-> call.op, s |-> call.s, n |-> call.n, ok |-> ok]

\* how request number n carries a screenshot: the first request has the
\* caller's messages as input (executeNaturalLanguageAction passes the earlier
\* messages and the instruction as text, with no image; the messages handed
\* to a generator served by createStreamingResponse are the caller's own),
\* every later request has a computer_call_output holding the new screenshot
RequestScreenshot(who, n) ==
    IF n = 1
    THEN IF who = "nl" THEN "none" ELSE "caller"
    ELSE "output"

\* openai.responses.create returns a response whose output is one of outs
\* (one of lastOuts for the last request the bound allows)
PlanRespondFrom(outs, lastOuts) ==
    /\ pc = "plan"
    /\ consumed = Len(events)
    /\ Len(planLog) < MaxRequests
    /\ \E out \in IF Len(planLog) + 1 = MaxRequests THEN lastOuts ELSE outs :
         response' = [id |-> Len(planLog) + 1, output |-> out]
    /\ planLog' = Append(planLog,
                    [aborted |-> signal,
                     ncalls |-> Len(desktopCalls),
                     previous_response_id |-> response.id,
                     input |-> IF Len(planLog) = 0 THEN 0
                               ELSE ChosenCall(ComputerCalls(response)).call_id,
                     screenshot |-> RequestScreenshot(consumer, Len(planLog) + 1),
                     status |-> 200])
    /\ pc' = "top"
    /\ UNCHANGED <<signal, events, desktopCalls>>
    /\ UNCHANGED scalerVars
    /\ UNCHANGED managerVars
    /\ UNCHANGED toolVars
    /\ UNCHANGED consumerVars
    /\ UNCHANGED cleanupVars

\* the planner of the safety checks: the last request the bound allows is
\* answered without a computer call
PlanRespond ==
    PlanRespondFrom(Outputs,
        {out \in Outputs : Len(SelectSeq2(out, "computer_call")) = 0})

\* openai.responses.create throws; the catch block yields ERROR
PlanFail ==
    /\ pc = "plan"
    /\ consumed = Len(events)
    /\ Len(planLog) < MaxRequests
    /\ \E status \in {429, 500} :
         /\ planLog' = Append(planLog,
                    [aborted |-> signal,
                     ncalls |-> Len(desktopCalls),
                     previous_response_id |-> response.id,
                     input |-> IF Len(planLog) = 0 THEN 0
                               ELSE ChosenCall(ComputerCalls(response)).call_id,
                     screenshot |-> RequestScreenshot(consumer, Len(planLog) + 1),
                     status |-> status])
         /\ IF status = 429
            THEN /\ events' = Append(events, Event("error", QuotaMessage, NoAction))
                 /\ pc' = "quota"
            ELSE /\ events' = Append(events, Event("error", GenericMessage, NoAction))
                 /\ pc' = "done"
    /\ UNCHANGED <<signal, response, desktopCalls>>
    /\ UNCHANGED scalerVars
    /\ UNCHANGED managerVars
    /\ UNCHANGED toolVars
    /\ UNCHANGED consumerVars
    /\ UNCHANGED cleanupVars

\* the DONE event that follows the quota ERROR event
QuotaDone ==
    /\ pc = "quota"
    /\ consumed = Len(events)
    /\ events' = Append(events, Event("done", "", NoAction))
    /\ pc' = "done"
    /\ UNCHANGED <<signal, response, planLog, desktopCalls>>
    /\ UNCHANGED scalerVars
    /\ UNCHANGED managerVars
    /\ UNCHANGED toolVars
    /\ UNCHANGED consumerVars
    /\ UNCHANGED cleanupVars

\* variant: no REASONING event in a cycle that has an action
TopNoReasoning ==
    /\ pc = "top"
    /\ consumed = Len(events)
    /\ IF signal
       THEN /\ events' = Append(events, Event("done", StoppedByUser, NoAction))
            /\ pc' = "done"
       ELSE IF Len(ComputerCalls(response)) = 0
            THEN /\ events' = Append(events, Event("reasoning", OutputText(response), NoAction))
                 /\ pc' = "finish"
            ELSE LET reasoningItems == ReasoningItems(response)
                 IN /\ events' =
                         IF Len(reasoningItems) > Len(response.output)
                         THEN Append(events,
                                Event("reasoning",
                                      IF reasoningItems[1].ctype = "output_text"
                                      THEN reasoningItems[1].text
                                      ELSE "JSON.stringify(content)",
                                      NoAction))
                         ELSE events
                    /\ pc' = "action"
    /\ UNCHANGED <<signal, response, planLog, desktopCalls>>
    /\ UNCHANGED scalerVars
    /\ UNCHANGED managerVars
    /\ UNCHANGED toolVars
    /\ UNCHANGED consumerVars
    /\ UNCHANGED cleanupVars

\* variant: the cancellation signal is not looked at once the loop runs
TopUncancellable ==
    /\ pc = "top"
    /\ consumed = Len(events)
    /\ IF signal /\ Len(planLog) = 0
       THEN /\ events' = Append(events, Event("done", StoppedByUser, NoAction))
            /\ pc' = "done"
       ELSE IF Len(ComputerCalls(response)) = 0
            THEN /\ events' = Append(events, Event("reasoning", OutputText(response), NoAction))
                 /\ pc' = "finish"
            ELSE LET reasoningItems == ReasoningItems(response)
                 IN /\ events' =
                         IF Len(reasoningItems) > 0
                         THEN Append(events,
                                Event("reasoning",
                                      IF reasoningItems[1].ctype = "output_text"
                                      THEN reasoningItems[1].text
                                      ELSE "JSON.stringify(content)",
                                      NoAction))
                         ELSE events
                    /\ pc' = "action"
    /\ UNCHANGED <<signal, response, planLog, desktopCalls>>
    /\ UNCHANGED scalerVars
    /\ UNCHANGED managerVars
    /\ UNCHANGED toolVars
    /\ UNCHANGED consumerVars
    /\ UNCHANGED cleanupVars

\* top of the while loop, up to the REASONING event
Top ==
    /\ pc = "top"
    /\ consumed = Len(events)
    /\ IF signal
       THEN /\ events' = Append(events, Event("done", StoppedByUser, NoAction))
            /\ pc' = "done"
       ELSE IF Len(ComputerCalls(response)) = 0
            THEN /\ events' = Append(events, Event("reasoning", OutputText(response), NoAction))
                 /\ pc' = "finish"
            ELSE LET reasoningItems == ReasoningItems(response)
                 IN /\ events' =
                         IF Len(reasoningItems) > 0
                         THEN Append(events,
                                Event("reasoning",
                                      IF reasoningItems[1].ctype = "output_text"
                                      THEN reasoningItems[1].text
                                      ELSE "JSON.stringify(content)",
                                      NoAction))
                         ELSE events
                    /\ pc' = "action"
    /\ UNCHANGED <<signal, response, planLog, desktopCalls>>
    /\ UNCHANGED scalerVars
    /\ UNCHANGED managerVars
    /\ UNCHANGED toolVars
    /\ UNCHANGED consumerVars
    /\ UNCHANGED cleanupVars

\* the DONE event after the final REASONING event
Finish ==
    /\ pc = "finish"
    /\ consumed = Len(events)
    /\ events' = Append(events, Event("done", "", NoAction))
    /\ pc' = "done"
    /\ UNCHANGED <<signal, response, planLog, desktopCalls>>
    /\ UNCHANGED scalerVars
    /\ UNCHANGED managerVars
    /\ UNCHANGED toolVars
    /\ UNCHANGED consumerVars
    /\ UNCHANGED cleanupVars

\* yield ACTION
YieldAction ==
    /\ pc = "action"
    /\ consumed = Len(events)
    /\ events' = Append(events,
                   Event("action", "", ChosenCall(ComputerCalls(response)).action))
    /\ pc' = "exec"
    /\ UNCHANGED <<signal, response, planLog, desktopCalls>>
    /\ UNCHANGED scalerVars
    /\ UNCHANGED managerVars
    /\ UNCHANGED toolVars
    /\ UNCHANGED consumerVars
    /\ UNCHANGED cleanupVars

\* variant: a rejected call is swallowed and the loop goes on
ExecuteActionSwallow ==
    /\ pc = "exec"
    /\ consumed = Len(events)
    /\ \E up \in Ties, ok \in BOOLEAN :
         LET calls == executeAction(ChosenCall(ComputerCalls(response)).action,
                                    scaleFactor, up)
         IN /\ (~ok) => Len(calls) > 0
            /\ desktopCalls' = desktopCalls \o
                   [i \in 1..Len(calls) |-> Logged(Len(planLog), calls[i], ok)]
            /\ IF ok
               THEN /\ pc' = "completed"
                    /\ events' = events
               ELSE /\ pc' = "completed"
                    /\ events' = events
    /\ UNCHANGED <<signal, response, planLog>>
    /\ UNCHANGED scalerVars
    /\ UNCHANGED managerVars
    /\ UNCHANGED toolVars
    /\ UNCHANGED consumerVars
    /\ UNCHANGED cleanupVars

\* await this.executeAction(action); a call on the desktop may reject
ExecuteAction ==
    /\ pc = "exec"
    /\ consumed = Len(events)
    /\ \E up \in Ties, ok \in BOOLEAN :
         LET calls == executeAction(ChosenCall(ComputerCalls(response)).action,
                                    scaleFactor, up)
         IN /\ (~ok) => Len(calls) > 0
            /\ desktopCalls' = desktopCalls \o
                   [i \in 1..Len(calls) |-> Logged(Len(planLog), calls[i], ok)]
            /\ IF ok
               THEN /\ pc' = "completed"
                    /\ events' = events
               ELSE /\ pc' = "done"
                    /\ events' = Append(events, Event("error", GenericMessage, NoAction))
    /\ UNCHANGED <<signal, response, planLog>>
    /\ UNCHANGED scalerVars
    /\ UNCHANGED managerVars
    /\ UNCHANGED toolVars
    /\ UNCHANGED consumerVars
    /\ UNCHANGED cleanupVars

\* variant: the signal is looked at before ACTION_COMPLETED
YieldCompletedPreempted ==
    /\ pc = "completed"
    /\ consumed = Len(events)
    /\ IF signal
       THEN /\ events' = Append(events, Event("done", StoppedByUser, NoAction))
            /\ pc' = "done"
       ELSE /\ events' = Append(events, Event("action_completed", "", NoAction))
            /\ pc' = "capture"
    /\ UNCHANGED <<signal, response, planLog, desktopCalls>>
    /\ UNCHANGED scalerVars
    /\ UNCHANGED managerVars
    /\ UNCHANGED toolVars
    /\ UNCHANGED consumerVars
    /\ UNCHANGED cleanupVars

\* yield ACTION_COMPLETED
YieldCompleted ==
    /\ pc = "completed"
    /\ consumed = Len(events)
    /\ events' = Append(events, Event("action_completed", "", NoAction))
    /\ pc' = "capture"
    /\ UNCHANGED <<signal, response, planLog, desktopCalls>>
    /\ UNCHANGED scalerVars
    /\ UNCHANGED managerVars
    /\ UNCHANGED toolVars
    /\ UNCHANGED consumerVars
    /\ UNCHANGED cleanupVars

\* variant: a second screenshot is taken when the first one succeeded
CaptureTwice ==
    /\ pc = "capture"
    /\ consumed = Len(events)
    /\ \E ok \in BOOLEAN :
         /\ desktopCalls' = desktopCalls \o
                              (IF ok
                               THEN <<Logged(Len(planLog), Call("screenshot", "", <<>>), ok),
                                      Logged(Len(planLog), Call("screenshot", "", <<>>), ok)>>
                               ELSE <<Logged(Len(planLog), Call("screenshot", "", <<>>), ok)>>)
         /\ IF ok
            THEN /\ pc' = "plan"
                 /\ events' = events
            ELSE /\ pc' = "done"
                 /\ events' = Append(events, Event("error", GenericMessage, NoAction))
    /\ UNCHANGED <<signal, response, planLog>>
    /\ UNCHANGED scalerVars
    /\ UNCHANGED managerVars
    /\ UNCHANGED toolVars
    /\ UNCHANGED consumerVars
    /\ UNCHANGED cleanupVars

\* await this.resolutionScaler.takeScreenshot(); the capture may reject
Capture ==
    /\ pc = "capture"
    /\ consumed = Len(events)
    /\ \E ok \in BOOLEAN :
         /\ desktopCalls' = Append(desktopCalls,
                              Logged(Len(planLog), Call("screenshot", "", <<>>), ok))
         /\ IF ok
            THEN /\ pc' = "plan"
                 /\ events' = events
            ELSE /\ pc' = "done"
                 /\ events' = Append(events, Event("error", GenericMessage, NoAction))
    /\ UNCHANGED <<signal, response, planLog>>
    /\ UNCHANGED scalerVars
    /\ UNCHANGED managerVars
    /\ UNCHANGED toolVars
    /\ UNCHANGED consumerVars
    /\ UNCHANGED cleanupVars

\* the caller's AbortController fires (timer or user)
Abort ==
    /\ pc \notin {"done", "closed"}
    /\ signal = FALSE
    /\ signal' = TRUE
    /\ UNCHANGED <<pc, response, planLog, events, desktopCalls>>
    /\ UNCHANGED scalerVars
    /\ UNCHANGED managerVars
    /\ UNCHANGED toolVars
    /\ UNCHANGED consumerVars
    /\ UNCHANGED cleanupVars

----------------------------------------------------------------------------
(* The consumers of stream(): createStreamingResponse and                   *)
(* NaturalLanguageComputerTools.executeNaturalLanguageAction                *)

\* request.instruction; it passed the check at the top of executeNaturalLanguageAction
Instruction == "open the terminal and list the files"

\* the listed phrases that a text of the model contains (String.includes)
Phrases(text) ==
    CASE text = "I need to solve the captcha" -> {"captcha", "solve the captcha"}
      [] OTHER -> {}

verificationMentions ==
    {"captcha", "recaptcha", "verify that you are human", "prove you are not a robot",
     "i need to verify", "verification required", "security challenge",
     "unusual traffic", "blocked by security", "cannot proceed without verification",
     "human verification needed", "click i'm not a robot", "complete the verification",
     "solve the captcha", "access denied", "verification step", "human intervention",
     "manual verification"}

helpNeededMentions ==
    {"cannot complete", "unable to proceed", "requires manual", "need human help",
     "cannot handle", "permission denied", "access restricted",
     "authentication required", "login needed"}

needsHumanInterventionFromReasoning(reasoning) ==
    IF Phrases(reasoning) \cap verificationMentions # {}
    THEN [needed |-> TRUE, reason |-> "AI Detected Verification Challenge"]
    ELSE IF Phrases(reasoning) \cap helpNeededMentions # {}
         THEN [needed |-> TRUE, reason |-> "AI Cannot Complete Action"]
         ELSE [needed |-> FALSE, reason |-> ""]

\* needsHumanIntervention(instruction, error), the branches on the error message
needsHumanIntervention(instruction, errorMessage) ==
    IF Phrases(errorMessage) \cap {"permission denied", "access denied"} # {}
    THEN [needed |-> TRUE, reason |-> "Permission Denied"]
    ELSE IF Phrases(errorMessage) \cap {"authentication", "login required"} # {}
    THEN [needed |-> TRUE, reason |-> "Authentication Required"]
    ELSE IF Phrases(errorMessage) \cap {"network", "connection", "timeout"} # {}
    THEN [needed |-> TRUE, reason |-> "Network/Connectivity Issue"]
    ELSE IF Phrases(errorMessage) \cap {"captcha", "human verification"} # {}
    THEN [needed |-> TRUE, reason |-> "Human Verification Required"]
    ELSE [needed |-> FALSE, reason |-> ""]

SuccessMessage == "Successfully executed natural language instruction"
InterventionMessage == "Human intervention required"
InterventionErrorMessage == "Human intervention required due to error"
FailedMessage == "Natural language action failed: AI service error"

\* the reasoning array after the first n events
ReasoningOf(n) ==
    LET taken == SelectSeq(SubSeq(events, 1, n),
                   LAMBDA e : e.type = "reasoning" /\ e.content # "")
    IN [i \in 1..Len(taken) |-> taken[i].content]

\* the actions array after the first n events
ActionsOf(n) ==
    LET taken == SelectSeq(SubSeq(events, 1, n), LAMBDA e : e.type = "action")
    IN [i \in 1..Len(taken) |-> taken[i].action]

Result(success, kind, message, detail, shot, reasoning, actions) ==
    [success |-> success, kind |-> kind, message |-> message, detail |-> detail,
     finalScreenshot |-> shot, reasoning |-> reasoning, actions |-> actions]

\* createStreamingResponse: the event is formatted and enqueued
SSEConsume ==
    /\ consumer = "sse"
    /\ consumed < Len(events)
    /\ consumed' = consumed + 1
    /\ UNCHANGED <<pc, signal, response, planLog, events, desktopCalls, consumer, result>>
    /\ UNCHANGED scalerVars
    /\ UNCHANGED managerVars
    /\ UNCHANGED toolVars
    /\ UNCHANGED cleanupVars

\* variant: the need for intervention is recorded and the loop goes on
NLConsumeNoReturn ==
    /\ consumer = "nl"
    /\ consumed < Len(events)
    /\ consumed' = consumed + 1
    /\ LET event == events[consumed + 1]
       IN CASE event.type = "reasoning"
                 /\ event.content # ""
                 /\ needsHumanInterventionFromReasoning(event.content).needed ->
                 /\ result' = Result(FALSE, "intervention", InterventionMessage,
                                     needsHumanInterventionFromReasoning(event.content).reason,
                                     FALSE, ReasoningOf(consumed + 1), ActionsOf(consumed + 1))
                 /\ pc' = pc
            [] event.type = "error" ->
                 /\ result' =
                      IF needsHumanIntervention(Instruction, event.content).needed
                      THEN Result(FALSE, "intervention", InterventionErrorMessage,
                                  needsHumanIntervention(Instruction, event.content).reason,
                                  FALSE, <<>>, <<>>)
                      ELSE Result(FALSE, "failed", FailedMessage, event.content,
                                  FALSE, <<>>, <<>>)
                 /\ pc' = "closed"
            [] OTHER ->
                 /\ result' = result
                 /\ pc' = pc
    /\ UNCHANGED <<signal, response, planLog, events, desktopCalls, consumer>>
    /\ UNCHANGED scalerVars
    /\ UNCHANGED managerVars
    /\ UNCHANGED toolVars
    /\ UNCHANGED cleanupVars

\* variant: an error event does not leave the loop
NLConsumeIgnoreError ==
    /\ consumer = "nl"
    /\ consumed < Len(events)
    /\ result = NoResult
    /\ consumed' = consumed + 1
    /\ LET event == events[consumed + 1]
       IN CASE event.type = "reasoning"
                 /\ event.content # ""
                 /\ needsHumanInterventionFromReasoning(event.content).needed ->
                 /\ result' = Result(FALSE, "intervention", InterventionMessage,
                                     needsHumanInterventionFromReasoning(event.content).reason,
                                     FALSE, ReasoningOf(consumed + 1), ActionsOf(consumed + 1))
                 /\ pc' = "closed"
            [] event.type = "error" /\ event.content = "" ->
                 /\ result' =
                      IF needsHumanIntervention(Instruction, event.content).needed
                      THEN Result(FALSE, "intervention", InterventionErrorMessage,
                                  needsHumanIntervention(Instruction, event.content).reason,
                                  FALSE, <<>>, <<>>)
                      ELSE Result(FALSE, "failed", FailedMessage, event.content,
                                  FALSE, <<>>, <<>>)
                 /\ pc' = "closed"
            [] OTHER ->
                 /\ result' = result
                 /\ pc' = pc
    /\ UNCHANGED <<signal, response, planLog, events, desktopCalls, consumer>>
    /\ UNCHANGED scalerVars
    /\ UNCHANGED managerVars
    /\ UNCHANGED toolVars
    /\ UNCHANGED cleanupVars

\* executeNaturalLanguageAction: the body of the for-await loop for one event;
\* leaving the loop by return or throw closes the generator
NLConsume ==
    /\ consumer = "nl"
    /\ consumed < Len(events)
    /\ result = NoResult
    /\ consumed' = consumed + 1
    /\ LET event == events[consumed + 1]
       IN CASE event.type = "reasoning"
                 /\ event.content # ""
                 /\ needsHumanInterventionFromReasoning(event.content).needed ->
                 /\ result' = Result(FALSE, "intervention", InterventionMessage,
                                     needsHumanInterventionFromReasoning(event.content).reason,
                                     FALSE, ReasoningOf(consumed + 1), ActionsOf(consumed + 1))
                 /\ pc' = "closed"
            [] event.type = "error" ->
                 /\ result' =
                      IF needsHumanIntervention(Instruction, event.content).needed
                      THEN Result(FALSE, "intervention", InterventionErrorMessage,
                                  needsHumanIntervention(Instruction, event.content).reason,
                                  FALSE, <<>>, <<>>)
                      ELSE Result(FALSE, "failed", FailedMessage, event.content,
                                  FALSE, <<>>, <<>>)
                 /\ pc' = "closed"
            [] OTHER ->
                 /\ result' = result
                 /\ pc' = pc
    /\ UNCHANGED <<signal, response, planLog, events, desktopCalls, consumer>>
    /\ UNCHANGED scalerVars
    /\ UNCHANGED managerVars
    /\ UNCHANGED toolVars
    /\ UNCHANGED cleanupVars

\* executeNaturalLanguageAction after the loop: final screenshot and success result
NLFinish ==
    /\ consumer = "nl"
    /\ pc = "done"
    /\ consumed = Len(events)
    /\ result = NoResult
    /\ \E ok \in BOOLEAN :
         /\ desktopCalls' = Append(desktopCalls,
                              Logged(0, Call("screenshot", "", <<>>), ok))
         /\ result' = Result(TRUE, "success", SuccessMessage, "", ok,
                             ReasoningOf(Len(events)), ActionsOf(Len(events)))
    /\ UNCHANGED <<pc, signal, response, planLog, events, consumer, consumed>>
    /\ UNCHANGED scalerVars
    /\ UNCHANGED managerVars
    /\ UNCHANGED toolVars
    /\ UNCHANGED cleanupVars

\* a scaler built for one of the loop's resolutions, and stream() just called
Init ==
    /\ originalResolution \in LoopResolutions
    /\ \E up \in Ties :
         LET r == calculateScaledResolution(originalResolution, up)
         IN /\ scaledResolution = r.scaledResolution
            /\ scaleFactor = r.scaleFactor
    /\ spc = "ready"
    /\ tested = <<>>
    /\ lastOp = NoOp
    /\ pc = "plan"
    /\ signal = FALSE
    /\ response = NoResponse
    /\ planLog = <<>>
    /\ events = <<>>
    /\ desktopCalls = <<>>
    /\ consumer \in {"sse", "nl"}
    /\ consumed = 0
    /\ result = NoResult
    /\ ManagerIdle
    /\ ToolsIdle
    /\ CleanupIdle

Next ==
    \/ PlanRespond
    \/ PlanFail
    \/ QuotaDone
    \/ Top
    \/ Finish
    \/ YieldAction
    \/ ExecuteAction
    \/ YieldCompleted
    \/ Capture
    \/ Abort
    \/ SSEConsume
    \/ NLConsume
    \/ NLFinish

Spec == Init /\ [][Next]_vars

----------------------------------------------------------------------------
(* The loop under fair scheduling, with a planner that may propose an     *)
(* action in every response                                                *)

\* the outputs of that planner
LiveOutputs ==
    {<<CallItem(1, Click("left"))>>,
     <<MessageItem("output_text", "I need to solve the captcha"),
       CallItem(1, Click("left"))>>,
     <<MessageItem("output_text", "The task is complete")>>}

\* responses.create returns; the caller's 5-minute timer has fired by the
\* time the last request the bound allows is answered
PlanAlways ==
    /\ Len(planLog) + 1 = MaxRequests => signal
    /\ PlanRespondFrom(LiveOutputs, LiveOutputs)

LiveNext ==
    \/ PlanAlways
    \/ PlanFail
    \/ QuotaDone
    \/ Top
    \/ Finish
    \/ YieldAction
    \/ ExecuteAction
    \/ YieldCompleted
    \/ Capture
    \/ Abort
    \/ SSEConsume
    \/ NLConsume
    \/ NLFinish

\* every planning, action and screenshot call returns, the generator and
\* its consumer are resumed, and the timer fires
LiveFairness ==
    /\ WF_vars(PlanAlways \/ PlanFail)
    /\ WF_vars(QuotaDone)
    /\ WF_vars(Top)
    /\ WF_vars(Finish)
    /\ WF_vars(YieldAction)
    /\ WF_vars(ExecuteAction)
    /\ WF_vars(YieldCompleted)
    /\ WF_vars(Capture)
    /\ WF_vars(Abort)
    /\ WF_vars(SSEConsume)
    /\ WF_vars(NLConsume)
    /\ WF_vars(NLFinish)

LiveSpec == Init /\ [][LiveNext]_vars /\ LiveFairness

----------------------------------------------------------------------------
(* SandboxManager.createSandbox and the create_sandbox tool *)

DEFAULT_TIMEOUT == 300000
DEFAULT_RESOLUTION == <<1024, 768>>

\* arguments accepted by CreateSandboxSchema: both fields are optional
NoArgs == [k \in {} |-> 0]
ToolArgs ==
    {NoArgs}
    \cup {[resolution |-> r] : r \in LoopResolutions}
    \cup {[timeout |-> t] : t \in {0, 120000}}
    \cup {[resolution |-> r, timeout |-> t] : r \in LoopResolutions, t \in {0, 120000}}

\* what the E2B service does with the call: Sandbox.create rejects, the
\* sandbox is created and stream.start rejects, or both succeed
CreateOutcomes == {"createFails", "streamFails", "created"}

\* resolution || DEFAULT_RESOLUTION
finalResolution(args) ==
    IF "resolution" \in DOMAIN args THEN args.resolution ELSE DEFAULT_RESOLUTION

\* timeout || DEFAULT_TIMEOUT: undefined and 0 are both falsy
finalTimeout(args) ==
    IF "timeout" \in DOMAIN args /\ args.timeout # 0 THEN args.timeout ELSE DEFAULT_TIMEOUT

\* sandbox ids and stream URLs are numbered; 0 stands for the empty string
CreateSandboxResult(id, url, resolution, status) ==
    [sandboxId |-> id, streamUrl |-> url, resolution |-> resolution, status |-> status]

MapSet(m, k, v) == [x \in DOMAIN m \cup {k} |-> IF x = k THEN v ELSE m[x]]

\* the create_sandbox handler: CreateSandboxSchema.parse(args), then
\* sandboxManager.createSandbox(parsed.resolution, parsed.timeout)
CreateSandbox ==
    /\ Len(toolCalls) < MaxCreates
    /\ \E args \in ToolArgs, outcome \in CreateOutcomes :
         LET id == Len(createLog) + 1
             created == CreateSandboxResult(id, id, finalResolution(args), "created")
             failed == CreateSandboxResult(0, 0, DEFAULT_RESOLUTION, "error")
             call == [resolution |-> finalResolution(args), dpi |-> 96,
                      timeoutMs |-> finalTimeout(args),
                      ok |-> outcome # "createFails", tool |-> Len(toolCalls) + 1]
         IN IF ~e2bApiKey
            THEN /\ toolCalls' = Append(toolCalls, [args |-> args, result |-> failed])
                 /\ UNCHANGED <<createLog, activeSandboxes>>
            ELSE /\ createLog' = Append(createLog, call)
                 /\ IF outcome = "created"
                    THEN /\ activeSandboxes' =
                              MapSet(activeSandboxes, id,
                                     [id |-> id, streamUrl |-> id,
                                      resolution |-> finalResolution(args)])
                         /\ toolCalls' = Append(toolCalls, [args |-> args, result |-> created])
                    ELSE /\ activeSandboxes' = activeSandboxes
                         /\ toolCalls' = Append(toolCalls, [args |-> args, result |-> failed])
    /\ UNCHANGED e2bApiKey
    /\ UNCHANGED scalerVars
    /\ UNCHANGED loopVars
    /\ UNCHANGED toolVars
    /\ UNCHANGED cleanupVars

\* bound on the number of natural-language loops started
MaxLoops == 2

RECURSIVE Started(_, _)
\* the number of loops started on the sandboxes 1..n
Started(l, n) ==
    IF n = 0 THEN 0 ELSE l[n].running + l[n].finished + Started(l, n - 1)

\* SandboxManager.getSandbox: the registered sandbox or null
getSandbox(sandboxId) ==
    IF sandboxId \in DOMAIN activeSandboxes THEN sandboxId ELSE 0

\* the resolution field of a natural-language request: omitted, or given
NLRequests == {NoArgs} \cup {[resolution |-> r] : r \in LoopResolutions}

\* const { ..., resolution = [1920, 1080] } = request
requestResolution(request) ==
    IF "resolution" \in DOMAIN request THEN request.resolution ELSE <<1920, 1080>>

\* executeNaturalLanguageAction up to the call of streamer.stream: the
\* instruction passes the intervention check, the sandbox is looked up in the
\* manager (an unknown id returns "not found" and starts nothing), the
\* scaler and the streamer are built and the loop starts
NLStart ==
    /\ Started(loops, MaxCreates) < MaxLoops
    /\ ~needsHumanIntervention(Instruction, "").needed
    /\ \E sandboxId \in SandboxIds, request \in NLRequests :
         loops' = IF getSandbox(sandboxId) = 0
                  THEN loops
                  ELSE [loops EXCEPT ![sandboxId].running = @ + 1,
                                     ![sandboxId].original = requestResolution(request)]
    /\ directLog' = directLog
    /\ UNCHANGED scalerVars
    /\ UNCHANGED loopVars
    /\ UNCHANGED managerVars
    /\ UNCHANGED cleanupVars

\* the for-await loop of executeNaturalLanguageAction ends: the generator is
\* done or closed
NLEnd ==
    /\ \E sandboxId \in SandboxIds :
         /\ loops[sandboxId].running > 0
         /\ loops' = [loops EXCEPT ![sandboxId].running = @ - 1,
                                   ![sandboxId].finished = @ + 1]
    /\ directLog' = directLog
    /\ UNCHANGED scalerVars
    /\ UNCHANGED loopVars
    /\ UNCHANGED managerVars
    /\ UNCHANGED cleanupVars

\* the state after "new SandboxManager(key)"; no scaler, no loop
ManagerInit ==
    /\ originalResolution = <<0, 0>>
    /\ scaledResolution = <<0, 0>>
    /\ scaleFactor = <<1, 1>>
    /\ spc = "new"
    /\ tested = <<>>
    /\ lastOp = NoOp
    /\ LoopIdle
    /\ e2bApiKey \in BOOLEAN
    /\ activeSandboxes = <<>>
    /\ createLog = <<>>
    /\ toolCalls = <<>>
    /\ ToolsIdle
    /\ CleanupIdle

ManagerNext ==
    \/ CreateSandbox
    \/ NLStart
    \/ NLEnd

ManagerSpec == ManagerInit /\ [][ManagerNext]_vars


----------------------------------------------------------------------------
(* ComputerUseTools.executeAction, the execute_computer_action tool *)

\* bound on the number of execute_computer_action calls
MaxDirect == 2

\* an action whose optional fields in the set fields are undefined
Without(action, fields) == [k \in DOMAIN action \ fields |-> action[k]]

\* the actions requested of the tool; the coordinates are already those of
\* the desktop
DirectActions ==
    {Click(b) : b \in {"left", "middle", "wheel", Undefined}}
    \cup {Scroll(0, -5), Scroll(3, 0), Scroll(3, -5),
          Drag(<< <<10, 10>>, <<50, 50>>, <<90, 90>> >>),
          Drag(<< <<10, 10>> >>),
          Action("type", 0, 0, Undefined, "ls", "", 0, 0, NoPath),
          Action("type", 0, 0, Undefined, "", "", 0, 0, NoPath),
          Action("keypress", 0, 0, Undefined, "", "", 0, 0, NoPath),
          Action("move", 40, 30, Undefined, "", "", 0, 0, NoPath),
          Without(Click("left"), {"x"}),
          Without(Action("double_click", 40, 30, Undefined, "", "", 0, 0, NoPath), {"y"}),
          Without(Action("move", 40, 30, Undefined, "", "", 0, 0, NoPath), {"x", "y"}),
          Action("screenshot", 0, 0, Undefined, "", "", 0, 0, NoPath),
          Action("wait", 0, 0, Undefined, "", "", 0, 0, NoPath)}

\* variant: a horizontal amount is scrolled as well
directCallsHorizontal(action) ==
    LET at == <<action.x, action.y>>
        located == {"x", "y"} \subseteq DOMAIN action
        calls(c) == [error |-> "", calls |-> c]
        throw(m) == [error |-> m, calls |-> <<>>]
    IN CASE action.type = "click" ->
              LET button == IF action.button = Undefined THEN "left" ELSE action.button
              IN CASE ~located -> throw("Click action requires x and y coordinates")
                   [] located /\ button = "left" -> calls(<<Call("leftClick", "", at)>>)
                   [] located /\ button = "right" -> calls(<<Call("rightClick", "", at)>>)
                   [] located /\ button = "middle" -> calls(<<Call("middleClick", "", at)>>)
                   [] OTHER -> throw("Unknown button")
         [] action.type = "double_click" ->
              IF ~located THEN throw("Double click action requires x and y coordinates")
              ELSE calls(<<Call("doubleClick", "", at)>>)
         [] action.type = "type" ->
              IF action.text = "" THEN throw("Type action requires text")
              ELSE calls(<<Call("write", action.text, <<>>)>>)
         [] action.type = "keypress" ->
              IF action.keys = "" THEN throw("Keypress action requires keys")
              ELSE calls(<<Call("press", action.keys, <<>>)>>)
         [] action.type = "move" ->
              IF ~located THEN throw("Move action requires x and y coordinates")
              ELSE calls(<<Call("moveMouse", "", at)>>)
         [] action.type = "scroll" ->
              LET sideways == IF action.scroll_x = 0 THEN <<>>
                              ELSE <<Call("scroll", "right", <<action.scroll_x>>)>>
              IN IF action.scroll_y < 0
                 THEN calls(<<Call("scroll", "up", <<Abs(action.scroll_y)>>)>> \o sideways)
                 ELSE IF action.scroll_y > 0
                      THEN calls(<<Call("scroll", "down", <<action.scroll_y>>)>> \o sideways)
                      ELSE calls(sideways)
         [] action.type = "drag" ->
              IF Len(action.path) < 2
              THEN throw("Drag action requires a path with at least 2 points")
              ELSE calls(<<Call("drag", "",
                                action.path[1] \o action.path[Len(action.path)])>>)
         [] action.type = "screenshot" -> calls(<<>>)
         [] OTHER -> throw("Unknown action type")

\* variant: a drag is accepted with a single path point
directCallsNoPathCheck(action) ==
    LET at == <<action.x, action.y>>
        located == {"x", "y"} \subseteq DOMAIN action
        calls(c) == [error |-> "", calls |-> c]
        throw(m) == [error |-> m, calls |-> <<>>]
    IN CASE action.type = "click" ->
              LET button == IF action.button = Undefined THEN "left" ELSE action.button
              IN CASE ~located -> throw("Click action requires x and y coordinates")
                   [] located /\ button = "left" -> calls(<<Call("leftClick", "", at)>>)
                   [] located /\ button = "right" -> calls(<<Call("rightClick", "", at)>>)
                   [] located /\ button = "middle" -> calls(<<Call("middleClick", "", at)>>)
                   [] OTHER -> throw("Unknown button")
         [] action.type = "double_click" ->
              IF ~located THEN throw("Double click action requires x and y coordinates")
              ELSE calls(<<Call("doubleClick", "", at)>>)
         [] action.type = "type" ->
              IF action.text = "" THEN throw("Type action requires text")
              ELSE calls(<<Call("write", action.text, <<>>)>>)
         [] action.type = "keypress" ->
              IF action.keys = "" THEN throw("Keypress action requires keys")
              ELSE calls(<<Call("press", action.keys, <<>>)>>)
         [] action.type = "move" ->
              IF ~located THEN throw("Move action requires x and y coordinates")
              ELSE calls(<<Call("moveMouse", "", at)>>)
         [] action.type = "scroll" ->
              IF action.scroll_y < 0
              THEN calls(<<Call("scroll", "up", <<Abs(action.scroll_y)>>)>>)
              ELSE IF action.scroll_y > 0
                   THEN calls(<<Call("scroll", "down", <<action.scroll_y>>)>>)
                   ELSE calls(<<>>)
         [] action.type = "drag" ->
              IF Len(action.path) < 1
              THEN throw("Drag action requires a path with at least 2 points")
              ELSE calls(<<Call("drag", "",
                                action.path[1] \o action.path[Len(action.path)])>>)
         [] action.type = "screenshot" -> calls(<<>>)
         [] OTHER -> throw("Unknown action type")

\* the switch of executeAction and the execute* helpers: the calls made on
\* the sandbox, or the error thrown before any call
directCalls(action) ==
    LET at == <<action.x, action.y>>
        located == {"x", "y"} \subseteq DOMAIN action
        calls(c) == [error |-> "", calls |-> c]
        throw(m) == [error |-> m, calls |-> <<>>]
    IN CASE action.type = "click" ->
              LET button == IF action.button = Undefined THEN "left" ELSE action.button
              IN CASE ~located -> throw("Click action requires x and y coordinates")
                   [] located /\ button = "left" -> calls(<<Call("leftClick", "", at)>>)
                   [] located /\ button = "right" -> calls(<<Call("rightClick", "", at)>>)
                   [] located /\ button = "middle" -> calls(<<Call("middleClick", "", at)>>)
                   [] OTHER -> throw("Unknown button")
         [] action.type = "double_click" ->
              IF ~located THEN throw("Double click action requires x and y coordinates")
              ELSE calls(<<Call("doubleClick", "", at)>>)
         [] action.type = "type" ->
              IF action.text = "" THEN throw("Type action requires text")
              ELSE calls(<<Call("write", action.text, <<>>)>>)
         [] action.type = "keypress" ->
              IF action.keys = "" THEN throw("Keypress action requires keys")
              ELSE calls(<<Call("press", action.keys, <<>>)>>)
         [] action.type = "move" ->
              IF ~located THEN throw("Move action requires x and y coordinates")
              ELSE calls(<<Call("moveMouse", "", at)>>)
         [] action.type = "scroll" ->
              IF action.scroll_y < 0
              THEN calls(<<Call("scroll", "up", <<Abs(action.scroll_y)>>)>>)
              ELSE IF action.scroll_y > 0
                   THEN calls(<<Call("scroll", "down", <<action.scroll_y>>)>>)
                   ELSE calls(<<>>)
         [] action.type = "drag" ->
              IF Len(action.path) < 2
              THEN throw("Drag action requires a path with at least 2 points")
              ELSE calls(<<Call("drag", "",
                                action.path[1] \o action.path[Len(action.path)])>>)
         [] action.type = "screenshot" -> calls(<<>>)
         [] OTHER -> throw("Unknown action type")

\* ActionResult; screenshot tells whether the screenshot field is present
ActionResult(success, message, screenshot) ==
    [success |-> success, message |-> message, screenshot |-> screenshot]

\* variant: a failed post-action screenshot fails the action
DirectExecuteStrict ==
    /\ Len(directLog) < MaxDirect
    /\ \E sandboxId \in SandboxIds, action \in DirectActions,
          actOk \in BOOLEAN, shotOk \in BOOLEAN :
         LET n == Len(directLog) + 1
             d == directCalls(action)
             acted == [i \in 1..Len(d.calls) |-> Logged(n, d.calls[i], actOk)]
             shot == Logged(n, Call("screenshot", "", <<>>), shotOk)
             entry(r) == [sandboxId |-> sandboxId, action |-> action, result |-> r]
         IN CASE getSandbox(sandboxId) = 0 ->
                   /\ desktopCalls' = desktopCalls
                   /\ directLog' = Append(directLog,
                          entry(ActionResult(FALSE, "Sandbox not found", FALSE)))
              [] getSandbox(sandboxId) # 0 /\ d.error # "" ->
                   /\ desktopCalls' = desktopCalls
                   /\ directLog' = Append(directLog,
                          entry(ActionResult(FALSE, d.error, FALSE)))
              [] getSandbox(sandboxId) # 0 /\ d.error = "" /\ d.calls # <<>> /\ ~actOk ->
                   /\ desktopCalls' = desktopCalls \o acted
                   /\ directLog' = Append(directLog,
                          entry(ActionResult(FALSE, "the error of the sandbox call", FALSE)))
              [] OTHER ->
                   IF action.type # "screenshot"
                   THEN /\ desktopCalls' = desktopCalls \o acted \o <<shot>>
                        /\ directLog' = Append(directLog,
                               entry(ActionResult(shotOk,
                                        IF shotOk THEN "Successfully executed action"
                                        ELSE "the error of the screenshot", shotOk)))
                   ELSE /\ desktopCalls' = desktopCalls \o acted
                        /\ directLog' = Append(directLog,
                               entry(ActionResult(TRUE, "Successfully executed action", FALSE)))
    /\ UNCHANGED <<pc, signal, response, planLog, events, consumer, consumed, result>>
    /\ UNCHANGED loops
    /\ UNCHANGED scalerVars
    /\ UNCHANGED managerVars
    /\ UNCHANGED cleanupVars

\* executeAction(sandboxId, action): the action's call on the sandbox may
\* reject (actOk), and so may the screenshot taken after it (shotOk)
DirectExecute ==
    /\ Len(directLog) < MaxDirect
    /\ \E sandboxId \in SandboxIds, action \in DirectActions,
          actOk \in BOOLEAN, shotOk \in BOOLEAN :
         LET n == Len(directLog) + 1
             d == directCalls(action)
             acted == [i \in 1..Len(d.calls) |-> Logged(n, d.calls[i], actOk)]
             shot == Logged(n, Call("screenshot", "", <<>>), shotOk)
             entry(r) == [sandboxId |-> sandboxId, action |-> action, result |-> r]
         IN CASE getSandbox(sandboxId) = 0 ->
                   /\ desktopCalls' = desktopCalls
                   /\ directLog' = Append(directLog,
                          entry(ActionResult(FALSE, "Sandbox not found", FALSE)))
              [] getSandbox(sandboxId) # 0 /\ d.error # "" ->
                   /\ desktopCalls' = desktopCalls
                   /\ directLog' = Append(directLog,
                          entry(ActionResult(FALSE, d.error, FALSE)))
              [] getSandbox(sandboxId) # 0 /\ d.error = "" /\ d.calls # <<>> /\ ~actOk ->
                   /\ desktopCalls' = desktopCalls \o acted
                   /\ directLog' = Append(directLog,
                          entry(ActionResult(FALSE, "the error of the sandbox call", FALSE)))
              [] OTHER ->
                   IF action.type # "screenshot"
                   THEN /\ desktopCalls' = desktopCalls \o acted \o <<shot>>
                        /\ directLog' = Append(directLog,
                               entry(ActionResult(TRUE, "Successfully executed action",
                                                  shotOk)))
                   ELSE /\ desktopCalls' = desktopCalls \o acted
                        /\ directLog' = Append(directLog,
                               entry(ActionResult(TRUE, "Successfully executed action", FALSE)))
    /\ UNCHANGED <<pc, signal, response, planLog, events, consumer, consumed, result>>
    /\ UNCHANGED loops
    /\ UNCHANGED scalerVars
    /\ UNCHANGED managerVars
    /\ UNCHANGED cleanupVars

\* one sandbox, created with the default arguments, is registered
DirectInit ==
    /\ originalResolution = <<0, 0>>
    /\ scaledResolution = <<0, 0>>
    /\ scaleFactor = <<1, 1>>
    /\ spc = "new"
    /\ tested = <<>>
    /\ lastOp = NoOp
    /\ LoopIdle
    /\ e2bApiKey = TRUE
    /\ activeSandboxes = MapSet(<<>>, 1, [id |-> 1, streamUrl |-> 1,
                                           resolution |-> finalResolution(NoArgs)])
    /\ createLog = <<[resolution |-> finalResolution(NoArgs), dpi |-> 96,
                      timeoutMs |-> finalTimeout(NoArgs), ok |-> TRUE, tool |-> 1]>>
    /\ toolCalls = <<[args |-> NoArgs,
                      result |-> CreateSandboxResult(1, 1, finalResolution(NoArgs), "created")]>>
    /\ ToolsIdle
    /\ CleanupIdle

DirectNext == DirectExecute

DirectSpec == DirectInit /\ [][DirectNext]_vars

----------------------------------------------------------------------------
(* SandboxManager.cleanupSandbox and its callers: the cleanup_sandbox tool, *)
(* the periodic cleanupExpiredSandboxes and shutdown                        *)

\* bound on the number of cleanupSandbox calls
MaxCleanups == 2

\* a cleanupSandbox call suspended at its first await: on instance.sandbox
\* .kill() when the registry held the id, on Sandbox.connect otherwise
CleanupCall(sandboxId, caller, found) ==
    [sandboxId |-> sandboxId, caller |-> caller, found |-> found,
     step |-> IF found THEN "kill" ELSE "connect",
     killed |-> "pending", result |-> "pending"]

\* cleanupSandbox(sandboxId) up to its first await, as the calls and the
\* kill counts it leaves
cleanupSandbox(calls, counts, sandboxId, caller) ==
    IF sandboxId \in DOMAIN activeSandboxes
    THEN [cleanups |-> Append(calls, CleanupCall(sandboxId, caller, TRUE)),
          kills |-> [counts EXCEPT ![sandboxId] = @ + 1]]
    ELSE [cleanups |-> Append(calls, CleanupCall(sandboxId, caller, FALSE)),
          kills |-> counts]

\* this.activeSandboxes.delete(sandboxId)
MapDelete(map, key) == [k \in DOMAIN map \ {key} |-> map[k]]

\* listSandboxes: the ids of the entries it returns
listSandboxes(map) == {map[k].id : k \in DOMAIN map}

Min(set) == CHOOSE m \in set : \A n \in set : m <= n

RECURSIVE cleanupAll(_, _, _, _)
\* the cleanupSandbox calls shutdown starts, one per key, before it awaits
cleanupAll(calls, counts, keys, caller) ==
    IF keys = {} THEN [cleanups |-> calls, kills |-> counts]
    ELSE LET begun == cleanupSandbox(calls, counts, Min(keys), caller)
         IN cleanupAll(begun.cleanups, begun.kills, keys \ {Min(keys)}, caller)

\* the uptime of a registered sandbox passes expiredThreshold (10 minutes)
Age ==
    /\ \E sandboxId \in DOMAIN activeSandboxes \ aged :
         aged' = aged \cup {sandboxId}
    /\ UNCHANGED <<cleanups, kills>>
    /\ UNCHANGED scalerVars
    /\ UNCHANGED loopVars
    /\ UNCHANGED managerVars
    /\ UNCHANGED toolVars

\* the cleanup_sandbox tool calls cleanupSandbox with the id it was given
CleanupTool ==
    /\ Len(cleanups) < MaxCleanups
    /\ \E sandboxId \in SandboxIds :
         LET begun == cleanupSandbox(cleanups, kills, sandboxId, "tool")
         IN /\ cleanups' = begun.cleanups
            /\ kills' = begun.kills
    /\ UNCHANGED aged
    /\ UNCHANGED scalerVars
    /\ UNCHANGED loopVars
    /\ UNCHANGED managerVars
    /\ UNCHANGED toolVars

\* a run of cleanupExpiredSandboxes, started by setInterval every minute
\* whether or not an earlier run has returned, reaches an entry whose uptime
\* exceeds the threshold and calls cleanupSandbox
CleanupExpired ==
    /\ Len(cleanups) < MaxCleanups
    /\ \E sandboxId \in DOMAIN activeSandboxes \cap aged :
         LET begun == cleanupSandbox(cleanups, kills, sandboxId, "expiry")
         IN /\ cleanups' = begun.cleanups
            /\ kills' = begun.kills
    /\ UNCHANGED aged
    /\ UNCHANGED scalerVars
    /\ UNCHANGED loopVars
    /\ UNCHANGED managerVars
    /\ UNCHANGED toolVars

\* shutdown: cleanupSandbox is called for every key of the registry
Shutdown ==
    /\ \A i \in 1..Len(cleanups) : cleanups[i].caller # "shutdown"
    /\ DOMAIN activeSandboxes # {}
    /\ Len(cleanups) + Cardinality(DOMAIN activeSandboxes) <= MaxCleanups
    /\ LET begun == cleanupAll(cleanups, kills, DOMAIN activeSandboxes, "shutdown")
       IN /\ cleanups' = begun.cleanups
          /\ kills' = begun.kills
    /\ UNCHANGED aged
    /\ UNCHANGED scalerVars
    /\ UNCHANGED loopVars
    /\ UNCHANGED managerVars
    /\ UNCHANGED toolVars

\* variant: the registry entry is deleted whether or not kill() succeeded
KillSettlesAlwaysDelete ==
    /\ \E i \in 1..Len(cleanups), ok \in BOOLEAN :
         /\ cleanups[i].step = "kill"
         /\ cleanups' = [cleanups EXCEPT ![i].step = "returned",
                                         ![i].killed = IF ok THEN "ok" ELSE "failed",
                                         ![i].result = IF ok THEN "true" ELSE "false"]
         /\ activeSandboxes' = MapDelete(activeSandboxes, cleanups[i].sandboxId)
    /\ UNCHANGED <<kills, aged>>
    /\ UNCHANGED <<e2bApiKey, createLog, toolCalls>>
    /\ UNCHANGED scalerVars
    /\ UNCHANGED loopVars
    /\ UNCHANGED toolVars

\* instance.sandbox.kill() settles: resolved, the entry is deleted and true
\* is returned; rejected, the outer catch returns false
KillSettles ==
    /\ \E i \in 1..Len(cleanups), ok \in BOOLEAN :
         /\ cleanups[i].step = "kill"
         /\ cleanups' = [cleanups EXCEPT ![i].step = "returned",
                                         ![i].killed = IF ok THEN "ok" ELSE "failed",
                                         ![i].result = IF ok THEN "true" ELSE "false"]
         /\ activeSandboxes' = IF ok THEN MapDelete(activeSandboxes, cleanups[i].sandboxId)
                               ELSE activeSandboxes
    /\ UNCHANGED <<kills, aged>>
    /\ UNCHANGED <<e2bApiKey, createLog, toolCalls>>
    /\ UNCHANGED scalerVars
    /\ UNCHANGED loopVars
    /\ UNCHANGED toolVars

\* Sandbox.connect settles for an id the registry did not hold: resolved,
\* kill() is called on the connected sandbox; rejected, false is returned
ConnectSettles ==
    /\ \E i \in 1..Len(cleanups), ok \in BOOLEAN :
         /\ cleanups[i].step = "connect"
         /\ IF ok
            THEN /\ cleanups' = [cleanups EXCEPT ![i].step = "killExternal"]
                 /\ kills' = [kills EXCEPT ![cleanups[i].sandboxId] = @ + 1]
            ELSE /\ cleanups' = [cleanups EXCEPT ![i].step = "returned",
                                                 ![i].result = "false"]
                 /\ kills' = kills
    /\ UNCHANGED aged
    /\ UNCHANGED scalerVars
    /\ UNCHANGED loopVars
    /\ UNCHANGED managerVars
    /\ UNCHANGED toolVars

\* kill() on the connected sandbox settles
ExternalKillSettles ==
    /\ \E i \in 1..Len(cleanups), ok \in BOOLEAN :
         /\ cleanups[i].step = "killExternal"
         /\ cleanups' = [cleanups EXCEPT ![i].step = "returned",
                                         ![i].killed = IF ok THEN "ok" ELSE "failed",
                                         ![i].result = IF ok THEN "true" ELSE "false"]
    /\ UNCHANGED <<kills, aged>>
    /\ UNCHANGED scalerVars
    /\ UNCHANGED loopVars
    /\ UNCHANGED managerVars
    /\ UNCHANGED toolVars

\* a manager whose registry holds one sandbox created with the default
\* arguments; no cleanup has been called
CleanupInit == DirectInit

CleanupNext ==
    \/ Age
    \/ CleanupTool
    \/ CleanupExpired
    \/ Shutdown
    \/ KillSettles
    \/ ConnectSettles
    \/ ExternalKillSettles
    \/ NLStart
    \/ NLEnd

CleanupSpec == CleanupInit /\ [][CleanupNext]_vars

----------------------------------------------------------------------------
(* Properties of the streaming loop, checked under Spec *)

Count(seq, type) == Len(SelectSeq2(seq, type))

StoppedEvents ==
    SelectSeq(events, LAMBDA e : e.type = "done" /\ e.content = StoppedByUser)

Strip(seq) == [i \in 1..Len(seq) |-> Call(seq[i].op, seq[i].s, seq[i].n)]

\* every call the desktop received during planning cycle k
CycleCalls(k) == Strip(SelectSeq(desktopCalls, LAMBDA c : c.cycle = k))

\* the input actions (all calls but the screenshot capture) of planning cycle k
CycleActionCalls(k) ==
    Strip(SelectSeq(desktopCalls, LAMBDA c : c.cycle = k /\ c.op # "screenshot"))

HasCall == response.id > 0 /\ Len(ComputerCalls(response)) > 0

FirstAction == ComputerCalls(response)[1].action

\* the action of the current response has been handed to executeAction,
\* which has returned or thrown
Dispatched == HasCall /\ Count(events, "action") = response.id /\ pc # "exec"

\* executeAction has returned normally for the action of the current response
ExecReturned ==
    HasCall /\ (pc = "completed" \/ Count(events, "action_completed") = response.id)

\* C1: in every planning cycle the input actions the desktop receives are
\* those of the first computer call of that cycle's response and nothing
\* else, however many computer calls the response carries; a response with
\* no computer call leads to no input action.
C1_SingleActionPerCycle ==
    response.id > 0 =>
        /\ \A i \in 1..Len(desktopCalls) : desktopCalls[i].cycle <= response.id
        /\ Count(events, "action") <= response.id
        /\ IF Len(ComputerCalls(response)) = 0
           THEN CycleActionCalls(response.id) = <<>>
           ELSE \E up \in Ties :
                  LET expected == executeAction(FirstAction, scaleFactor, up)
                  IN /\ CycleActionCalls(response.id) \in {<<>>, expected}
                     /\ ExecReturned => CycleActionCalls(response.id) = expected

C1_Witness ==
    /\ response.id = 2
    /\ Len(ComputerCalls(response)) >= 2
    /\ pc = "plan"
    /\ FirstAction = Scroll(0, -5)
    /\ ComputerCalls(response)[2].action = Scroll(0, 7)
    /\ CycleActionCalls(2) = <<Call("scroll", "up", <<5>>)>>

\* C2 as stated: once a planning request has been submitted with the
\* cancellation signal set, the desktop receives no further call, the loop
\* never emits more than one "stopped by user" notification and it has
\* emitted exactly one when it ends.
C2_Original ==
    \A i \in 1..Len(planLog) :
        planLog[i].aborted =>
            /\ Len(SelectSeq(desktopCalls, LAMBDA c : c.cycle > 0)) = planLog[i].ncalls
            /\ Len(StoppedEvents) <= 1
            /\ pc = "done" => Len(StoppedEvents) = 1

\* C3 as stated: once an action of unknown type has been handed to the
\* executor the loop is in Errored: its last notification is ERROR, no
\* ACTION_COMPLETED was emitted for the action and the desktop received no
\* call, screenshot included, in that cycle.
C3_Original ==
    (Dispatched /\ FirstAction.type \notin KnownTypes) =>
        /\ pc = "done"
        /\ events[Len(events)].type = "error"
        /\ Count(events, "action_completed") < response.id
        /\ CycleCalls(response.id) = <<>>

\* C4 as stated: a drag action with a path of n >= 2 points makes the
\* executor issue exactly one drag call, from the translated first point to
\* the translated last point of the path.
C4_Original ==
    (ExecReturned /\ FirstAction.type = "drag" /\ Len(FirstAction.path) >= 2) =>
        \E up \in Ties :
            CycleActionCalls(response.id) =
                <<Call("drag", "",
                       scaleToOriginalSpace(FirstAction.path[1], scaleFactor, up)
                       \o scaleToOriginalSpace(FirstAction.path[Len(FirstAction.path)],
                                               scaleFactor, up))>>

ScrollCalls(scroll_y) ==
    IF scroll_y < 0 THEN <<Call("scroll", "up", <<0 - scroll_y>>)>>
    ELSE IF scroll_y > 0 THEN <<Call("scroll", "down", <<scroll_y>>)>>
    ELSE <<>>

\* C5: executing a scroll action makes exactly one call scroll("up", |scroll_y|)
\* when scroll_y < 0, exactly one call scroll("down", scroll_y) when
\* scroll_y > 0, and no call at all when scroll_y = 0.
C5_ScrollDirection ==
    (HasCall /\ FirstAction.type = "scroll") =>
        /\ CycleActionCalls(response.id) \in {<<>>, ScrollCalls(FirstAction.scroll_y)}
        /\ ExecReturned => CycleActionCalls(response.id) = ScrollCalls(FirstAction.scroll_y)

C5_Witness ==
    /\ ExecReturned
    /\ FirstAction = Scroll(0, -5)
    /\ CycleActionCalls(response.id) = <<Call("scroll", "up", <<5>>)>>
    /\ \E i \in 1..Len(desktopCalls) : desktopCalls[i].op = "scroll" /\ desktopCalls[i].s = "down"

\* X is Math.round(c / scaleFactor), either neighbour being taken at a tie
IsTranslated(X, c) == 2 * Abs(X * scaleFactor[1] - c * scaleFactor[2]) <= scaleFactor[1]

TranslatedPoint(P, p) == IsTranslated(P[1], p[1]) /\ IsTranslated(P[2], p[2])

PointerOps == {"leftClick", "rightClick", "middleClick", "doubleClick", "moveMouse"}

\* the input actions of the current cycle, as logged
CurrentActionCalls ==
    SelectSeq(desktopCalls, LAMBDA c : c.cycle = response.id /\ c.op # "screenshot")

\* C12: every coordinate that a click, double_click, move or drag action
\* makes the executor pass to the desktop is round(model coordinate /
\* scale factor) on each axis: the action's (x, y) for the pointer calls,
\* points of the action's path for both ends of a drag.
C12_CoordinatesTranslated ==
    HasCall =>
        \A i \in 1..Len(CurrentActionCalls) :
            LET c == CurrentActionCalls[i]
            IN /\ c.op \in PointerOps =>
                    /\ Len(c.n) = 2
                    /\ TranslatedPoint(c.n, <<FirstAction.x, FirstAction.y>>)
               /\ c.op = "drag" =>
                    /\ Len(c.n) = 4
                    /\ TranslatedPoint(<<c.n[1], c.n[2]>>, FirstAction.path[1])
                    /\ \E k \in 1..Len(FirstAction.path) :
                          TranslatedPoint(<<c.n[3], c.n[4]>>, FirstAction.path[k])

C12_Witness ==
    /\ originalResolution = <<2560, 1440>>
    /\ ExecReturned
    /\ FirstAction = Click("left")
    /\ CycleActionCalls(response.id) = <<Call("leftClick", "", <<400, 200>>)>>

\* exactly one call of operation op, at the translated (x, y) of the action
OneClick(op) ==
    /\ Len(CurrentActionCalls) = 1
    /\ CurrentActionCalls[1].op = op
    /\ Len(CurrentActionCalls[1].n) = 2
    /\ TranslatedPoint(CurrentActionCalls[1].n, <<FirstAction.x, FirstAction.y>>)

\* C13 as stated: a click action without a button field results in exactly
\* one left click at the translated coordinates.
C13_Original ==
    (ExecReturned /\ FirstAction.type = "click" /\ FirstAction.button = Undefined)
        => OneClick("leftClick")

\* C14 as stated: a click with button "middle" and a click with button
\* "wheel" each result in exactly one middle click at the translated
\* coordinates, and button "right" in exactly one right click.
C14_Original ==
    (ExecReturned /\ FirstAction.type = "click") =>
        /\ FirstAction.button \in {"middle", "wheel"} => OneClick("middleClick")
        /\ FirstAction.button = "right" => OneClick("rightClick")

\* the types of the terminal notifications emitted, in order
TerminalTypes ==
    LET t == SelectSeq(events, LAMBDA e : e.type \in {"done", "error"})
    IN [i \in 1..Len(t) |-> t[i].type]

\* C15 as stated: a run of the loop that has terminated has emitted exactly
\* one terminal notification, a DONE or an ERROR.
C15_Original == pc = "done" => Len(TerminalTypes) = 1

PlanningFailed ==
    /\ Len(planLog) > 0
    /\ planLog[Len(planLog)].status \in {429, 500}

\* C16 as stated: a run ended by a failed planning request emits the terminal
\* notifications of the generic planning error, a single ERROR, whatever the
\* status; with status 429 the message of that ERROR is not the generic one.
C16_Original ==
    (pc \in {"done", "closed"} /\ PlanningFailed) =>
        /\ TerminalTypes = <<"error">>
        /\ planLog[Len(planLog)].status = 429 =>
              /\ events[Len(events)].content = QuotaMessage
              /\ QuotaMessage # GenericMessage

\* C17: once a call of an executing action has failed on the desktop, the
\* loop has ended with an ERROR notification; the failed call is the last
\* call the loop made and the only one of its cycle, no ACTION_COMPLETED was
\* emitted for the action and no planning request followed.
C17_ExecutorErrorTerminates ==
    \A i \in 1..Len(desktopCalls) :
        (desktopCalls[i].ok = FALSE /\ desktopCalls[i].op # "screenshot") =>
            /\ pc \in {"done", "closed"}
            /\ \A j \in 1..Len(desktopCalls) : j > i => desktopCalls[j].cycle = 0
            /\ Len(CycleCalls(desktopCalls[i].cycle)) = 1
            /\ Len(planLog) = desktopCalls[i].cycle
            /\ Count(events, "action_completed") = desktopCalls[i].cycle - 1
            /\ Count(events, "action") = desktopCalls[i].cycle
            /\ TerminalTypes = <<"error">>
            /\ events[Len(events)].type = "error"

C17_Witness ==
    /\ pc = "done"
    /\ Len(desktopCalls) = 3
    /\ desktopCalls[1].ok /\ desktopCalls[2].ok
    /\ desktopCalls[3] = Logged(2, Call("write", "ls", <<>>), FALSE)
    /\ Len(planLog) = 2

\* C18 as stated: the result of executeNaturalLanguageAction for a run
\* stopped by the cancellation signal is not the success result.
C18_Original ==
    (result.kind # "none" /\ Len(StoppedEvents) > 0) =>
        ~(result.success /\ result.message = SuccessMessage)

\* C19 as stated: a create_sandbox call that omits resolution and timeout
\* creates the sandbox with resolution [1920, 1080] and a timeout of
\* 600000 ms.
C19_Original ==
    \A i \in 1..Len(createLog) :
        toolCalls[createLog[i].tool].args = NoArgs =>
            /\ createLog[i].resolution = <<1920, 1080>>
            /\ createLog[i].timeoutMs = 600000

\* C20 as stated: no planning request is submitted once the cancellation
\* signal is set.
C20_Original == \A i \in 1..Len(planLog) : ~planLog[i].aborted

\* the events and the desktop calls added by a step
NewEvents == SubSeq(events', Len(events) + 1, Len(events'))
NewCalls == SubSeq(desktopCalls', Len(desktopCalls) + 1, Len(desktopCalls'))

IsStopped(e) == e.type = "done" /\ e.content = StoppedByUser

\* C21: setting the cancellation signal interrupts nothing. With the signal
\* set while the action executes or the screenshot is captured, the step
\* ends as it would without the signal (ACTION_COMPLETED follows the
\* executed action, no "stopped by user" notification is emitted from inside
\* the step), and from then on no action begins: the loop emits "stopped by
\* user" at its next check.
C21_NotPreemptive ==
    [][/\ signal' # signal =>
            /\ pc' = pc
            /\ events' = events
            /\ desktopCalls' = desktopCalls
       /\ (signal /\ pc \in {"exec", "completed", "capture"}) =>
            \A i \in 1..Len(NewEvents) : ~IsStopped(NewEvents[i])
       /\ (signal /\ pc = "exec" /\ pc' # pc) => pc' \in {"completed", "done"}
       /\ (signal /\ pc = "completed" /\ pc' # pc) =>
            /\ pc' = "capture"
            /\ NewEvents = <<Event("action_completed", "", NoAction)>>
       /\ (signal /\ pc = "capture" /\ pc' # pc) =>
            /\ Len(NewCalls) = 1
            /\ NewCalls[1].op = "screenshot"
       /\ (signal /\ pc \in {"completed", "capture", "plan", "top"}) =>
            /\ \A i \in 1..Len(NewEvents) : NewEvents[i].type # "action"
            /\ \A i \in 1..Len(NewCalls) : NewCalls[i].op = "screenshot"
       /\ (signal /\ pc = "top" /\ pc' # pc) =>
            /\ pc' = "done"
            /\ NewEvents = <<Event("done", StoppedByUser, NoAction)>>
      ]_vars

C21_Witness ==
    /\ signal
    /\ pc = "done"
    /\ ~planLog[1].aborted
    /\ Len(planLog) = 2
    /\ planLog[2].aborted
    /\ [i \in 1..Len(events) |-> events[i].type] = <<"action", "action_completed", "done">>
    /\ IsStopped(events[3])
    /\ Len(desktopCalls) >= 2

\* the index of the last ACTION event, 0 when there is none
LastActionIndex ==
    LET idx == {i \in 1..Len(events) : events[i].type = "action"}
    IN IF idx = {} THEN 0 ELSE CHOOSE i \in idx : \A j \in idx : j <= i

\* the order of the notifications emitted so far
EventOrder ==
    /\ \A i \in 1..Len(events) :
         /\ events[i].type = "action_completed" => (i > 1 /\ events[i - 1].type = "action")
         /\ (events[i].type = "action" /\ i < Len(events)) =>
                events[i + 1].type \in {"action_completed", "error"}
         /\ (events[i].type = "reasoning" /\ i < Len(events)) =>
                events[i + 1].type \in {"action", "done"}
    /\ (HasCall /\ Count(events, "action") = response.id) =>
         LET i == LastActionIndex
         IN (Len(ReasoningItems(response)) > 0) <=>
                (i > 1 /\ events[i - 1].type = "reasoning")

\* C22: in a cycle that executes an action the notifications are REASONING
\* (exactly when the response holds a message), ACTION, ACTION_COMPLETED in
\* that order; the desktop calls of the action are made after ACTION of the
\* cycle has been emitted and before its ACTION_COMPLETED, which never comes
\* without the ACTION right before it.
C22_NotificationOrder ==
    /\ []EventOrder
    /\ [][(\E i \in 1..Len(NewCalls) : NewCalls[i].op # "screenshot") =>
            /\ events # <<>>
            /\ events[Len(events)].type = "action"
            /\ Count(events, "action") = response.id
            /\ Count(events, "action_completed") = response.id - 1
            /\ \A i \in 1..Len(NewEvents) : NewEvents[i].type = "error"]_vars

C22_Witness ==
    /\ pc = "capture"
    /\ [i \in 1..Len(events) |-> events[i].type] = <<"reasoning", "action", "action_completed">>
    /\ events[1].content = "Opening the menu"
    /\ CycleCalls(1) = <<Call("leftClick", "", scaleToOriginalSpace(<<300, 150>>, scaleFactor, <<TRUE, TRUE>>))>>

\* the calls of the loop itself (those of the final screenshot of
\* executeNaturalLanguageAction are logged with cycle 0)
LoopCalls == SelectSeq(desktopCalls, LAMBDA c : c.cycle > 0)

\* C23: action, capture and planning request follow each other in lockstep.
\* Every cycle that was followed by a planning request holds exactly one
\* screenshot, its last call, and that request was submitted right after it;
\* the calls of a cycle come after the screenshot of the cycle before; the
\* request carries the id of the previous response and the call_id of the
\* first computer call of that response, whose action was executed.
C23_Lockstep ==
    /\ [](/\ \A i \in 1..Len(LoopCalls), j \in 1..Len(LoopCalls) :
               i < j => LoopCalls[i].cycle <= LoopCalls[j].cycle
          /\ Count(events, "action") <= Len(planLog)
          /\ \A k \in 1..(Len(planLog) - 1) :
               LET cc == SelectSeq(LoopCalls, LAMBDA c : c.cycle = k)
               IN /\ Len(cc) >= 1
                  /\ Len(SelectSeq(cc, LAMBDA c : c.op = "screenshot")) = 1
                  /\ cc[Len(cc)].op = "screenshot"
                  /\ cc[Len(cc)].ok
                  /\ planLog[k + 1].previous_response_id = k
                  /\ planLog[k + 1].ncalls =
                        Len(SelectSeq(LoopCalls, LAMBDA c : c.cycle <= k)))
    /\ [][(Len(planLog') > Len(planLog) /\ Len(planLog) > 0) =>
            LET e == planLog'[Len(planLog')]
            IN /\ Len(planLog') = Len(planLog) + 1
               /\ e.previous_response_id = response.id
               /\ e.input = ComputerCalls(response)[1].call_id
               /\ e.screenshot = "output"
               /\ Count(events, "action_completed") = Len(planLog)
               /\ desktopCalls[Len(desktopCalls)].op = "screenshot"
               /\ desktopCalls[Len(desktopCalls)].cycle = Len(planLog)]_vars

C23_Witness ==
    /\ Len(planLog) = 3
    /\ Count(events, "action") = 2
    /\ Count(events, "action_completed") = 2
    /\ [i \in 1..Len(desktopCalls) |-> desktopCalls[i].op]
          = <<"leftClick", "screenshot", "write", "screenshot">>
    /\ planLog[2].previous_response_id = 1
    /\ planLog[3].previous_response_id = 2
    /\ planLog[3].input = 1

\* C24 as stated: the first planning request of a natural-language loop
\* carries a screenshot attached to the conversation and no later request
\* does.
C24_Original ==
    consumer = "nl" =>
        \A i \in 1..Len(planLog) :
            /\ i = 1 => planLog[i].screenshot = "attached"
            /\ i > 1 => planLog[i].screenshot # "attached"

\* C25 as stated: a failed capture of the screenshot that follows an
\* executed action does not end the loop in Errored, and the caller is not
\* given a failure for it.
C25_Original ==
    \A i \in 1..Len(desktopCalls) :
        (desktopCalls[i].op = "screenshot" /\ desktopCalls[i].cycle > 0
            /\ ~desktopCalls[i].ok) =>
            /\ events[Len(events)].type # "error"
            /\ result.kind # "failed"

NoOpTypes == {"wait", "screenshot"}

\* C30: an action of type wait or screenshot makes the executor call nothing
\* on the desktop and return normally; the only call of such a cycle is the
\* screenshot the loop captures after ACTION_COMPLETED.
C30_NoOpActions ==
    (HasCall /\ FirstAction.type \in NoOpTypes) =>
        /\ CycleActionCalls(response.id) = <<>>
        /\ Dispatched => ExecReturned
        /\ Len(CycleCalls(response.id)) <= 1
        /\ Len(CycleCalls(response.id)) = 1 =>
              Count(events, "action_completed") = response.id

C30_Witness ==
    /\ HasCall
    /\ FirstAction.type = "screenshot"
    /\ pc = "plan"
    /\ Count(events, "action_completed") = response.id
    /\ CycleCalls(response.id) = <<Call("screenshot", "", <<>>)>>

----------------------------------------------------------------------------
(* Properties of the scaler, checked under ScalerSpec *)

Built == spc # "new"

\* width in [800, 1920] and height in [600, 1080]
WithinBounds(res) ==
    /\ res[1] \in MIN_RESOLUTION_WIDTH..MAX_RESOLUTION_WIDTH
    /\ res[2] \in MIN_RESOLUTION_HEIGHT..MAX_RESOLUTION_HEIGHT

Validated == spc = "ready" /\ Len(tested) = 5

ExceedsMax(res) == res[1] > MAX_RESOLUTION_WIDTH \/ res[2] > MAX_RESOLUTION_HEIGHT

\* every round-trip error recorded so far is within tol on both axes
ErrorsWithin(tol) ==
    \A i \in 1..Len(tested) :
        Abs(tested[i].error[1]) <= tol /\ Abs(tested[i].error[2]) <= tol

\* C6: for an original resolution inside the bounds, the round trip
\* scaleToOriginalSpace(scaleToModelSpace(p)) of each corner and of the
\* center differs from p by at most 1 on each axis.
C6_RoundTripInBounds == WithinBounds(originalResolution) => ErrorsWithin(1)

C6_Witness ==
    /\ originalResolution = <<1366, 768>>
    /\ Validated
    /\ tested[4].roundTrip = <<1365, 767>>

\* C7 as stated: for every original resolution that exceeds the maximum the
\* round-trip error at the corners and the center is within 1 on each axis.
C7_Original == ExceedsMax(originalResolution) => ErrorsWithin(1)

\* C7 amended: for every original resolution that exceeds the maximum and
\* whose scale factor is at least 1/3 (width <= 5760 and height <= 3240), the
\* round-trip error at the corners and the center is within 1 on each axis.
C7_RoundTripScaled ==
    (/\ ExceedsMax(originalResolution)
     /\ Built
     /\ 3 * scaleFactor[1] >= scaleFactor[2]) => ErrorsWithin(1)

C7_Witness ==
    /\ originalResolution = <<5760, 3240>>
    /\ Validated
    /\ scaleFactor[2] = 3 * scaleFactor[1]
    /\ tested[4].error = <<1, 1>>

\* C8: an original resolution with width in [800,1920] and height in
\* [600,1080] gets scale factor 1 and a scaled resolution equal to itself.
C8_IdentityScaling ==
    (WithinBounds(originalResolution) /\ Built) =>
        /\ scaleFactor[1] = scaleFactor[2]
        /\ scaledResolution = originalResolution

C8_Witness ==
    /\ originalResolution \in {<<1920, 1080>>, <<800, 600>>}
    /\ Built
    /\ scaledResolution = originalResolution

\* C9: both axes are scaled by the one factor f = scaleFactor, each scaled
\* dimension being within 1/2 of the original dimension times f.
C9_AspectPreserved ==
    Built =>
        /\ 2 * Abs(scaledResolution[1] * scaleFactor[2]
                   - originalResolution[1] * scaleFactor[1]) <= scaleFactor[2]
        /\ 2 * Abs(scaledResolution[2] * scaleFactor[2]
                   - originalResolution[2] * scaleFactor[1]) <= scaleFactor[2]

C9_Witness ==
    /\ originalResolution = <<3840, 2160>>
    /\ Built
    /\ scaledResolution = <<1920, 1080>>

BelowMin(res) == res[1] < MIN_RESOLUTION_WIDTH \/ res[2] < MIN_RESOLUTION_HEIGHT

\* C11 as stated: a resolution with a dimension below the minimum and none
\* above the maximum is passed through with factor 1, and the scale factor
\* never exceeds 1.
C11_Original ==
    Built =>
        /\ (BelowMin(originalResolution) /\ ~ExceedsMax(originalResolution)) =>
              /\ scaledResolution = originalResolution
              /\ scaleFactor[1] = scaleFactor[2]
        /\ scaleFactor[1] <= scaleFactor[2]

\* C11 amended: a resolution with a dimension below the minimum and none
\* above the maximum is scaled by min(1920/W, 1080/H) >= 1, which brings its
\* width to 1920 or its height to 1080; the factor is at most 1 for every
\* other resolution.
C11_UpscaledToMax ==
    Built =>
        /\ (BelowMin(originalResolution) /\ ~ExceedsMax(originalResolution)) =>
              /\ scaleFactor[1] >= scaleFactor[2]
              /\ scaleFactor[1] * originalResolution[1] <= MAX_RESOLUTION_WIDTH * scaleFactor[2]
              /\ scaleFactor[1] * originalResolution[2] <= MAX_RESOLUTION_HEIGHT * scaleFactor[2]
              /\ \/ scaleFactor[1] * originalResolution[1] = MAX_RESOLUTION_WIDTH * scaleFactor[2]
                 \/ scaleFactor[1] * originalResolution[2] = MAX_RESOLUTION_HEIGHT * scaleFactor[2]
              /\ \/ scaledResolution[1] = MAX_RESOLUTION_WIDTH
                 \/ scaledResolution[2] = MAX_RESOLUTION_HEIGHT
        /\ (~BelowMin(originalResolution) \/ ExceedsMax(originalResolution)) =>
              scaleFactor[1] <= scaleFactor[2]

C11_Witness ==
    /\ originalResolution = <<640, 480>>
    /\ Built
    /\ scaledResolution = <<1440, 1080>>
    /\ 4 * scaleFactor[1] = 9 * scaleFactor[2]

\* C10 as stated: the scaled resolution of every original resolution has
\* 800 <= width <= 1920 and 600 <= height <= 1080.
C10_Original ==
    Built =>
        /\ scaledResolution[1] >= MIN_RESOLUTION_WIDTH
        /\ scaledResolution[1] <= MAX_RESOLUTION_WIDTH
        /\ scaledResolution[2] >= MIN_RESOLUTION_HEIGHT
        /\ scaledResolution[2] <= MAX_RESOLUTION_HEIGHT

\* C10 amended: the scaled resolution of every original resolution has
\* width <= 1920 and height <= 1080; the lower bounds 800 and 600 hold when
\* the original resolution is itself within the bounds.
C10_ScaledBelowMax ==
    Built =>
        /\ scaledResolution[1] <= MAX_RESOLUTION_WIDTH
        /\ scaledResolution[2] <= MAX_RESOLUTION_HEIGHT
        /\ WithinBounds(originalResolution) =>
              /\ scaledResolution[1] >= MIN_RESOLUTION_WIDTH
              /\ scaledResolution[2] >= MIN_RESOLUTION_HEIGHT

C10_Witness ==
    /\ originalResolution = <<3840, 600>>
    /\ Built
    /\ scaledResolution = <<1920, 300>>

\* C27 as stated: when a round-trip error sampled by the constructor
\* exceeds 1 on an axis the constructor does not complete silently. The
\* scaler writes no diagnostic and throws nowhere, so completing is
\* completing silently.
C27_Original == (Len(tested) = 5 /\ ~ErrorsWithin(1)) => spc # "ready"

\* res is Math.round(arg * scaleFactor), either neighbour at a tie
RoundedProduct(res, arg) ==
    2 * Abs(res * scaleFactor[2] - arg * scaleFactor[1]) <= scaleFactor[2]

\* res is Math.round(arg / scaleFactor), either neighbour at a tie
RoundedQuotient(res, arg) ==
    2 * Abs(res * scaleFactor[1] - arg * scaleFactor[2]) <= scaleFactor[1]

\* C29: once the scaler is constructed no call changes its scale factor,
\* original resolution or scaled resolution, and each conversion applies
\* that one factor to both axes; a screenshot is returned at the scaled
\* resolution.
C29_FactorImmutable ==
    /\ [][spc = "ready" =>
            /\ scaleFactor' = scaleFactor
            /\ originalResolution' = originalResolution
            /\ scaledResolution' = scaledResolution]_vars
    /\ [](/\ lastOp.op = "scaleToModelSpace" =>
               /\ RoundedProduct(lastOp.res[1], lastOp.arg[1])
               /\ RoundedProduct(lastOp.res[2], lastOp.arg[2])
          /\ lastOp.op = "scaleToOriginalSpace" =>
               /\ RoundedQuotient(lastOp.res[1], lastOp.arg[1])
               /\ RoundedQuotient(lastOp.res[2], lastOp.arg[2])
          /\ lastOp.op = "takeScreenshot" => lastOp.res \in {scaledResolution, <<0, 0>>})

C29_Witness ==
    /\ originalResolution = <<3840, 2160>>
    /\ spc = "ready"
    /\ scaledResolution = <<1920, 1080>>
    /\ lastOp = [op |-> "scaleToModelSpace", arg |-> <<3839, 2159>>, res |-> <<1920, 1080>>]

\* C33 as stated: a model-space coordinate inside the scaled resolution is
\* mapped by scaleToOriginalSpace to a coordinate inside the original
\* resolution.
C33_Original ==
    (/\ spc = "ready"
     /\ lastOp.op = "scaleToOriginalSpace"
     /\ lastOp.arg[1] \in 0..(scaledResolution[1] - 1)
     /\ lastOp.arg[2] \in 0..(scaledResolution[2] - 1)) =>
        /\ lastOp.res[1] \in 0..(originalResolution[1] - 1)
        /\ lastOp.res[2] \in 0..(originalResolution[2] - 1)

\* the natural-language loop returned because a reasoning text asked for a
\* human
StoppedForHuman ==
    /\ consumer = "nl"
    /\ result.kind = "intervention"
    /\ result.message = InterventionMessage

\* C37: when a REASONING notification matches a human-intervention phrase,
\* the natural-language loop returns requiresHumanIntervention, the action of
\* that planning response never reaches the desktop and no later planning
\* request is made.
C37_InterventionPrecedesAction ==
    StoppedForHuman =>
        /\ ~result.success
        /\ events[Len(events)].type = "reasoning"
        /\ needsHumanInterventionFromReasoning(events[Len(events)].content).needed
        /\ CycleCalls(response.id) = <<>>
        /\ \A i \in 1..Len(desktopCalls) : desktopCalls[i].cycle < response.id
        /\ Len(planLog) = response.id
        /\ pc = "closed"

C37_Witness ==
    /\ StoppedForHuman
    /\ HasCall
    /\ FirstAction = Click("left")
    /\ response.id = 2
    /\ Len(CycleCalls(1)) = 2
    /\ CycleCalls(2) = <<>>

\* C38: once the loop has emitted an ERROR notification, the
\* natural-language loop returns success = false without a final screenshot,
\* as a human-intervention result or as a failure result.
C38_ErrorNeverSuccess ==
    (consumer = "nl" /\ Count(events, "error") > 0) =>
        /\ ~result.success
        /\ ~result.finalScreenshot
        /\ \A i \in 1..consumed :
              events[i].type = "error" => result.kind \in {"intervention", "failed"}
        /\ \A i \in 1..Len(desktopCalls) : desktopCalls[i].cycle # 0

C38_Witness ==
    /\ consumer = "nl"
    /\ Count(events, "error") = 1
    /\ Count(events, "action") = 1
    /\ result.kind = "failed"
    /\ ~result.success

\* the loop has ended: with a DONE or ERROR notification, or closed by its
\* consumer
Terminal ==
    \/ pc = "closed"
    \/ /\ pc = "done"
       /\ Len(events) > 0
       /\ events[Len(events)].type \in {"done", "error"}

\* C39: when every call returns and the cancellation signal is eventually
\* set, the streaming loop eventually reaches a terminal state, even when an
\* action is proposed in every response.
C39_TerminatesAfterCancellation == <>Terminal

\* the loop was ended by the cancellation, every response before it having
\* proposed an action
C39_Witness ==
    /\ pc = "done"
    /\ signal
    /\ Len(planLog) = MaxRequests
    /\ Len(StoppedEvents) = 1
    /\ Len(ComputerCalls(response)) > 0
    /\ Count(events, "action") = MaxRequests - 1

----------------------------------------------------------------------------
(* Properties of the sandbox manager, checked under ManagerSpec *)

\* C28 as stated: at most one natural-language loop runs on a sandbox at
\* any time.
C28_Original == \A sandboxId \in SandboxIds : loops[sandboxId].running <= 1

----------------------------------------------------------------------------
(* Properties of the direct tool, checked under DirectSpec *)

\* the calls the sandbox received for the n-th execute_computer_action call
DirectCallsOf(n) == SelectSeq(desktopCalls, LAMBDA c : c.cycle = n)

\* C26: when the post-action screenshot of a direct action fails, the
\* action's own call was made once and succeeded, the screenshot was not
\* tried again, and the result is success = true without a screenshot field.
C26_ScreenshotBestEffort ==
    \A n \in 1..Len(directLog) :
        LET cc == DirectCallsOf(n)
            shots == SelectSeq(cc, LAMBDA c : c.op = "screenshot")
            acts == SelectSeq(cc, LAMBDA c : c.op # "screenshot")
        IN (Len(shots) > 0 /\ ~shots[1].ok) =>
              /\ directLog[n].result.success
              /\ ~directLog[n].result.screenshot
              /\ directLog[n].result.message = "Successfully executed action"
              /\ Len(shots) = 1
              /\ cc[Len(cc)].op = "screenshot"
              /\ Len(acts) <= 1
              /\ \A i \in 1..Len(acts) : acts[i].ok

C26_Witness ==
    /\ Len(directLog) >= 1
    /\ directLog[1].action = Click("left")
    /\ directLog[1].result = ActionResult(TRUE, "Successfully executed action", FALSE)
    /\ DirectCallsOf(1) = <<Logged(1, Call("leftClick", "", <<300, 150>>), TRUE),
                            Logged(1, Call("screenshot", "", <<>>), FALSE)>>

\* the input calls (all but the screenshot) of the n-th direct call
DirectActionCalls(n) ==
    Strip(SelectSeq(DirectCallsOf(n), LAMBDA c : c.op # "screenshot"))

\* C31: for every scroll action the calls made are those of scroll_y alone,
\* whatever scroll_x is, in the direct executor and in the streaming one; a
\* scroll with scroll_x # 0 and scroll_y = 0 calls nothing and succeeds.
C31_HorizontalNoOp ==
    \A n \in 1..Len(directLog) :
        LET a == directLog[n].action
        IN (a.type = "scroll" /\ directLog[n].sandboxId \in DOMAIN activeSandboxes) =>
              /\ DirectActionCalls(n) = ScrollCalls(a.scroll_y)
              /\ \A up \in Ties : executeAction(a, <<1, 1>>, up) = ScrollCalls(a.scroll_y)
              /\ a.scroll_y = 0 =>
                    /\ DirectActionCalls(n) = <<>>
                    /\ directLog[n].result.success
                    /\ directLog[n].result.message = "Successfully executed action"

C31_Witness ==
    /\ Len(directLog) = 2
    /\ directLog[1].action = Scroll(3, 0)
    /\ directLog[1].sandboxId \in DOMAIN activeSandboxes
    /\ directLog[1].result.success
    /\ DirectActionCalls(1) = <<>>
    /\ directLog[2].action = Scroll(3, -5)
    /\ directLog[2].sandboxId \in DOMAIN activeSandboxes
    /\ DirectActionCalls(2) = <<Call("scroll", "up", <<5>>)>>

\* a parameter the action's type requires is missing
MissingParameter(a) ==
    \/ a.type \in {"click", "double_click", "move"} /\ ~({"x", "y"} \subseteq DOMAIN a)
    \/ a.type = "type" /\ a.text = ""
    \/ a.type = "keypress" /\ a.keys = ""
    \/ a.type = "drag" /\ Len(a.path) < 2

\* C40: a direct action on an unregistered sandbox, or one that lacks a
\* required parameter, returns success = false and no call, input or
\* screenshot, reaches any sandbox.
C40_RejectedTouchNothing ==
    \A n \in 1..Len(directLog) :
        (\/ directLog[n].sandboxId \notin DOMAIN activeSandboxes
         \/ MissingParameter(directLog[n].action)) =>
            /\ ~directLog[n].result.success
            /\ ~directLog[n].result.screenshot
            /\ DirectCallsOf(n) = <<>>

C40_Witness ==
    /\ Len(directLog) = 2
    /\ directLog[1].action = Without(Click("left"), {"x"})
    /\ directLog[1].sandboxId \in DOMAIN activeSandboxes
    /\ directLog[1].result = ActionResult(FALSE, "Click action requires x and y coordinates", FALSE)
    /\ directLog[2].action = Click("left")
    /\ directLog[2].sandboxId \notin DOMAIN activeSandboxes
    /\ ~directLog[2].result.success
    /\ desktopCalls = <<>>

----------------------------------------------------------------------------
(* Properties of the natural-language tool and the manager's registry *)

\* C32 as stated: the original resolution given to the ResolutionScaler of
\* a natural-language loop is the resolution the manager recorded for the
\* sandbox, also when the request omits resolution and the sandbox was
\* created with the manager's default.
C32_Original ==
    \A sandboxId \in DOMAIN activeSandboxes :
        loops[sandboxId].running + loops[sandboxId].finished > 0 =>
            loops[sandboxId].original = activeSandboxes[sandboxId].resolution

\* C34 as stated: while a natural-language loop runs on a registered
\* sandbox, the periodic expiry cleanup neither calls kill() on that sandbox
\* nor removes it from the registry.
C34_Original ==
    [][\A i \in 1..Len(cleanups') :
          LET call == cleanups'[i]
          IN (call.caller = "expiry" /\ loops[call.sandboxId].running > 0) =>
                /\ i <= Len(cleanups)
                /\ (cleanups[i].step = "kill" /\ call.step = "returned"
                      /\ call.sandboxId \in DOMAIN activeSandboxes) =>
                       call.sandboxId \in DOMAIN activeSandboxes']_vars

\* C35 as stated: kill() is invoked at most once on a sandbox, whatever the
\* interleaving of the cleanupSandbox calls of the tool, the expiry cleanup
\* and shutdown.
C35_Original == \A sandboxId \in SandboxIds : kills[sandboxId] <= 1

\* C36: a cleanupSandbox call that found the id in the registry returns
\* true only when its kill() resolved, and the id is then off the registry
\* (getSandbox gives null, listSandboxes omits it); when its kill() rejects
\* it returns false and leaves the registry as it was.
C36_RegistryConsistent ==
    [][\A i \in 1..Len(cleanups) :
          (cleanups[i].found /\ cleanups[i].step = "kill"
              /\ cleanups'[i].step = "returned") =>
             IF cleanups'[i].killed = "ok"
             THEN /\ cleanups'[i].result = "true"
                  /\ cleanups[i].sandboxId \notin DOMAIN activeSandboxes'
                  /\ cleanups[i].sandboxId \notin listSandboxes(activeSandboxes')
             ELSE /\ cleanups'[i].killed = "failed"
                  /\ cleanups'[i].result = "false"
                  /\ activeSandboxes' = activeSandboxes]_vars

\* both outcomes have happened: a call whose kill() rejected returned false
\* with the entry kept, and a later call removed the entry and returned true
C36_Witness ==
    /\ Len(cleanups) = 2
    /\ cleanups[1].found /\ cleanups[1].killed = "failed" /\ cleanups[1].result = "false"
    /\ cleanups[2].found /\ cleanups[2].killed = "ok" /\ cleanups[2].result = "true"
    /\ cleanups[1].sandboxId = cleanups[2].sandboxId
    /\ kills[cleanups[1].sandboxId] = 2
    /\ cleanups[1].sandboxId \notin DOMAIN activeSandboxes

====
